---- MODULE Spec2Model ----
(***************************************************************************)
(* pysonolus: a compiler from small Python functions to the Sonolus node   *)
(* IR.  The pipeline is                                                    *)
(*   Python AST --Compiler--> tree IR --link--> one tree --transform-->    *)
(*   flow graph --optimize--> flow graph at the fixpoint.                  *)
(* Every stage is a function of its input and of the process-wide counter  *)
(* of anonymous registers; each is modelled by an operator computed the    *)
(* way the code computes it, and each stage has a specification whose      *)
(* initial states draw the stage's input and whose actions run it.         *)
(***************************************************************************)
EXTENDS Integers, Sequences, FiniteSets, TLC

VARIABLES
    pc,         \* position of the pipeline
    counter,    \* anonymous.anonymous_variable_counter
    source,     \* the input of the stage at hand (AST, program, tree, call)
    node,       \* tree IR: Compiler.compile's / link's / call's result
    flow,       \* flow graph: transform's result, optimize's current graph
    machine     \* the downstream runtime: registers, memory, effects

vars == <<pc, counter, source, node, flow, machine>>

----------------------------------------------------------------------------
(* Numbers.  The IR's literals are Python floats; they are modelled as     *)
(* exact rationals <<numerator, denominator>> in lowest terms.             *)

AbsInt(a) == IF a < 0 THEN -a ELSE a

RECURSIVE Gcd(_, _)
Gcd(a, b) == IF b = 0 THEN a ELSE Gcd(b, a % b)

Q(n, d) ==
    LET g == Gcd(AbsInt(n), AbsInt(d))
        s == IF d < 0 THEN -1 ELSE 1
    IN  <<(s * n) \div g, (s * d) \div g>>

Num(n) == <<n, 1>>
QAdd(a, b) == Q(a[1] * b[2] + b[1] * a[2], a[2] * b[2])
QSub(a, b) == Q(a[1] * b[2] - b[1] * a[2], a[2] * b[2])
QMul(a, b) == Q(a[1] * b[1], a[2] * b[2])
QDiv(a, b) == Q(a[1] * b[2], a[2] * b[1])
QLess(a, b) == a[1] * b[2] < b[1] * a[2]
QZero(a) == a[1] = 0
QBool(b) == IF b THEN Num(1) ELSE Num(0)

----------------------------------------------------------------------------
(* Tree IR nodes (node/IR.py).  A raised exception is carried as an Error  *)
(* node, which every constructor passes on.                                *)

ValueNode(q) == [kind |-> "Value", num |-> q]
RefNode(name) == [kind |-> "Ref", name |-> name]
AssignNode(name, value) == [kind |-> "Assign", name |-> name, value |-> value]
GetNode(block, index, offset) ==
    [kind |-> "Get", block |-> block, index |-> index, offset |-> offset]
SetNode(block, index, offset, value) ==
    [kind |-> "Set", block |-> block, index |-> index, offset |-> offset,
     value |-> value]
ExecuteNode(nodes) == [kind |-> "Execute", nodes |-> nodes]
FunctionNode(name, args) == [kind |-> "Function", name |-> name, args |-> args]
CallNode(name, args, kwargs) ==
    [kind |-> "Call", name |-> name, args |-> args, kwargs |-> kwargs]
StarredNode(nested) == [kind |-> "Starred", nested |-> nested]
IfNode(condition, then, orelse) ==
    [kind |-> "If", condition |-> condition, then |-> then, orelse |-> orelse]
WhileNode(condition, body) ==
    [kind |-> "While", condition |-> condition, body |-> body]
ErrorNode(msg) == [kind |-> "Error", msg |-> msg]

IsError(n) == n.kind = "Error"
HasError(ns) == \E i \in 1..Len(ns) : IsError(ns[i])
FirstError(ns) ==
    ns[CHOOSE i \in 1..Len(ns) :
          IsError(ns[i]) /\ \A j \in 1..(i - 1) : ~IsError(ns[j])]

ExecuteNode_empty(n) == n.kind = "Execute" /\ n.nodes = <<>>

F_empty == ExecuteNode(<<>>)
F_true == ValueNode(Num(1))
F_false == ValueNode(Num(0))

RECURSIVE FlattenNodes(_)
FlattenNodes(ns) ==
    IF ns = <<>> THEN <<>>
    ELSE (IF Head(ns).kind = "Execute" THEN Head(ns).nodes ELSE <<Head(ns)>>)
         \o FlattenNodes(Tail(ns))

F_Execute(ns) ==
    IF HasError(ns) THEN FirstError(ns)
    ELSE IF Len(ns) = 1 THEN ns[1]
    ELSE ExecuteNode(FlattenNodes(ns))

RECURSIVE F_Assign(_, _)
F_Assign(name, value) ==
    IF IsError(value) THEN value
    ELSE IF value.kind = "Execute"
    THEN IF value.nodes = <<>> THEN ErrorNode("IndexError")
         ELSE F_Execute(SubSeq(value.nodes, 1, Len(value.nodes) - 1)
                        \o <<F_Assign(name, value.nodes[Len(value.nodes)])>>)
    ELSE AssignNode(name, value)

F_If(condition, then, orelse) ==
    IF HasError(<<condition, then, orelse>>)
    THEN FirstError(<<condition, then, orelse>>)
    ELSE IF ExecuteNode_empty(then) THEN IfNode(condition, F_true, orelse)
    ELSE IF ExecuteNode_empty(orelse) THEN IfNode(condition, then, F_false)
    ELSE IfNode(condition, then, orelse)

create_function_node(name, ns) ==
    IF HasError(ns) THEN FirstError(ns)
    ELSE IF \E i \in 1..Len(ns) : ExecuteNode_empty(ns[i])
    THEN ErrorNode("ValueError")
    ELSE FunctionNode(name, ns)

\* the conjunction as a built-in call: every operand is an argument, and
\* arguments are all evaluated (the alternative F.And is compared with)
EagerAnd(ns) == create_function_node("And", ns)

F_While(condition, body) ==
    IF HasError(<<condition, body>>) THEN FirstError(<<condition, body>>)
    ELSE WhileNode(condition, body)

RECURSIVE F_And(_)
F_And(ns) ==
    IF Len(ns) = 1 THEN ns[1]
    ELSE F_If(ns[1], F_And(Tail(ns)), F_false)

RECURSIVE F_Or(_)
F_Or(ns) ==
    IF Len(ns) = 1 THEN ns[1]
    ELSE F_If(ns[1], F_true, F_Or(Tail(ns)))

F_Call(name, args, kwargs) ==
    IF HasError(args) THEN FirstError(args)
    ELSE IF \E i \in 1..Len(kwargs) : IsError(kwargs[i].arg)
    THEN kwargs[CHOOSE i \in 1..Len(kwargs) : IsError(kwargs[i].arg)].arg
    ELSE CallNode(name, args, kwargs)

----------------------------------------------------------------------------
(* Python AST (the input of the front end).  Statements: Return, If,       *)
(* Assign, Expr, Pass.  Expressions: Constant, Name, Attribute, Call,      *)
(* Compare, BinOp.  An absent value (None) is AstNone.                     *)

AstNone == [ast |-> "None"]
AstConstant(n) == [ast |-> "Constant", value |-> n]
AstName(id) == [ast |-> "Name", id |-> id]
\* an attribute chain that the addressing collaborator resolves to
\* (block, index) with the pointer's default offset Value(0)
AstAttribute(block, index) ==
    [ast |-> "Attribute", block |-> block, index |-> index]
AstCall(func, args) == [ast |-> "Call", func |-> func, args |-> args]
AstCompare(left, ops, comparators) ==
    [ast |-> "Compare", left |-> left, ops |-> ops,
     comparators |-> comparators]
AstBinOp(left, op, right) ==
    [ast |-> "BinOp", left |-> left, op |-> op, right |-> right]
AstReturn(value) == [ast |-> "Return", value |-> value]
AstIf(test, body, orelse) ==
    [ast |-> "If", test |-> test, body |-> body, orelse |-> orelse]
AstAssign(target, value) ==
    [ast |-> "Assign", target |-> target, value |-> value]
AstExpr(value) == [ast |-> "Expr", value |-> value]
AstPass == [ast |-> "Pass"]

----------------------------------------------------------------------------
(* Context (compiler/context.py): a stack of frames; an option is read     *)
(* and written in the innermost frame that has it.  The compile state      *)
(* threads the frame stack and the counter of anonymous().                 *)

FunctionContext(name) ==
    [frame |-> "Function", calls |-> {}, name |-> name]
BlockContext ==
    [frame |-> "Block", may_break |-> FALSE, break_flag |-> "",
     may_return |-> FALSE, return_flag |-> "", return_value |-> ""]

Context_enter(st, frame) == [st EXCEPT !.frames = Append(@, frame)]
Context_exit(st) ==
    [st EXCEPT !.frames = SubSeq(@, 1, Len(@) - 1)]

HasOption(st, name) ==
    \E i \in 1..Len(st.frames) : name \in DOMAIN st.frames[i]
Innermost(st, name) ==
    CHOOSE i \in 1..Len(st.frames) :
        /\ name \in DOMAIN st.frames[i]
        /\ \A j \in (i + 1)..Len(st.frames) : name \notin DOMAIN st.frames[j]
Context_getattr(st, name) == st.frames[Innermost(st, name)][name]
Context_setattr(st, name, value) ==
    [st EXCEPT !.frames[Innermost(st, name)][name] = value]

\* anonymous.py: the name minted when the counter reaches n
anonymous(n) == "$" \o ToString(n)
Tick(st) == [st EXCEPT !.counter = @ + 1]

\* inspect.py QualifiedName.var
QualifiedName_var(fname, id) == fname \o "$" \o id

----------------------------------------------------------------------------
(* Compiler (compiler/core.py).  Every rule returns the node and the       *)
(* compile state after it.                                                 *)

Out(n, st) == [node |-> n, st |-> st]

CompareFunction(op) ==
    CASE op = "Eq" -> "Equal"
      [] op = "NotEq" -> "NotEqual"
      [] op = "Lt" -> "Less"
      [] op = "LtE" -> "LessOr"
      [] op = "Gt" -> "Greater"
      [] op = "GtE" -> "GreaterOr"

BinOpFunction(op) ==
    CASE op = "Add" -> "Add"
      [] op = "Sub" -> "Subtract"
      [] op = "Mult" -> "Multiply"
      [] op = "Div" -> "Divide"

RECURSIVE compile_expr(_, _)
RECURSIVE compile_args(_, _, _, _)
RECURSIVE compile_Compare_loop(_, _, _, _, _)

\* [Compiler.compile(arg) for arg in call.args]
compile_args(args, i, done, st) ==
    IF i > Len(args) THEN [nodes |-> done, st |-> st]
    ELSE LET r == compile_expr(args[i], st)
         IN  compile_args(args, i + 1, Append(done, r.node), r.st)

\* the loop of __compile_Compare__, at the k-th (op, right) pair
compile_Compare_loop(compare, k, left, result, st) ==
    IF k > Len(compare.ops) THEN Out(result, st)
    ELSE
      LET st1 == Tick(st)
          left_alias == anonymous(st1.counter)
          l == compile_expr(left, st1)
          left_assign == F_Assign(left_alias, l.node)
          st2 == Tick(l.st)
          right_alias == anonymous(st2.counter)
          right == compare.comparators[k]
          r == compile_expr(right, st2)
          right_assign == F_Assign(right_alias, r.node)
          cmp == create_function_node(CompareFunction(compare.ops[k]),
                     <<RefNode(left_alias), RefNode(right_alias)>>)
          result1 == F_And(<<result,
                             F_Execute(<<left_assign, right_assign, cmp>>)>>)
      IN  compile_Compare_loop(compare, k + 1, right, result1, r.st)

compile_Compare(compare, st) ==
    compile_Compare_loop(compare, 1, compare.left, F_true, st)

compile_Call(call, st) ==
    LET a == compile_args(call.args, 1, <<>>, st)
        st1 == Context_setattr(a.st, "calls",
                   Context_getattr(a.st, "calls") \cup {call.func})
    IN  Out(F_Call(call.func, a.nodes, <<>>), st1)

compile_BinOp(bin_op, st) ==
    LET l == compile_expr(bin_op.left, st)
        r == compile_expr(bin_op.right, l.st)
    IN  Out(create_function_node(BinOpFunction(bin_op.op),
                                 <<l.node, r.node>>), r.st)

compile_Name(name, st) ==
    Out(RefNode(QualifiedName_var(Context_getattr(st, "name"), name.id)), st)

compile_Attribute(name, st) ==
    Out(GetNode(name.block, name.index, ValueNode(Num(0))), st)

compile_Constant(constant, st) == Out(ValueNode(Num(constant.value)), st)

compile_expr(e, st) ==
    CASE e.ast = "Constant" -> compile_Constant(e, st)
      [] e.ast = "Name" -> compile_Name(e, st)
      [] e.ast = "Attribute" -> compile_Attribute(e, st)
      [] e.ast = "Call" -> compile_Call(e, st)
      [] e.ast = "Compare" -> compile_Compare(e, st)
      [] e.ast = "BinOp" -> compile_BinOp(e, st)
      [] OTHER -> Out(ErrorNode("NotImplementedError"), st)

\* Compiler._assign
compile_assign(target, value, st) ==
    CASE target.ast = "Name" ->
           F_Assign(QualifiedName_var(Context_getattr(st, "name"), target.id),
                    value)
      [] target.ast = "Attribute" ->
           IF IsError(value) THEN value
           ELSE SetNode(target.block, target.index, ValueNode(Num(0)), value)
      [] OTHER -> ErrorNode("TypeError")

compile_Assign(assign, st) ==
    LET v == compile_expr(assign.value, st)
    IN  Out(compile_assign(assign.target, v.node, v.st), v.st)

\* Compiler._may_return: c is the BlockContext frame, by value
may_return(c, n, st) ==
    IF c.may_return
    THEN IF c.return_flag = "" THEN Out(ErrorNode("ValueError"), st)
         ELSE
           LET return_flag == RefNode(c.return_flag)
               return_value == IF c.return_value # ""
                               THEN RefNode(c.return_value) ELSE F_empty
               st1 == Tick(st)
               result == anonymous(st1.counter)
           IN  IF ~ExecuteNode_empty(n)
               THEN Out(F_Execute(<<F_Assign(result, n),
                                    F_If(return_flag, return_value,
                                         RefNode(result))>>), st1)
               ELSE Out(F_And(<<return_flag, return_value>>), st1)
    ELSE Out(n, st)

compile_Return(ret, st) ==
    LET st1 == Context_setattr(st, "may_return", TRUE)
    IN  IF ret.value # AstNone
        THEN LET st2 == Tick(st1)
                 flag_name == anonymous(st2.counter)
                 st3 == Tick(Context_setattr(st2, "return_flag", flag_name))
                 var_name == anonymous(st3.counter)
                 st4 == Context_setattr(st3, "return_value", var_name)
                 v == compile_expr(ret.value, st4)
             IN  Out(F_Execute(<<F_Assign(var_name, v.node),
                                 F_Assign(flag_name, F_true)>>), v.st)
        ELSE LET st2 == Tick(st1)
                 flag_name == anonymous(st2.counter)
                 st3 == Context_setattr(st2, "return_flag", flag_name)
             IN  Out(F_Assign(flag_name, F_true), st3)

RECURSIVE compile_stmt(_, _)
RECURSIVE compile_block(_, _, _)
RECURSIVE compile_block_loop(_, _, _, _, _)
RECURSIVE compile_If(_, _)

\* _compile_block once a statement has set may_return: n is that
\* statement's node, c the block's frame, a the compiled rest of the block
compile_block_rest(nodes, n, c, a) ==
    LET m == may_return(c, a.node, Context_exit(a.st))
    IN  [nodes |-> nodes \o <<n, m.node>>, st |-> m.st]

\* the body of the for loop of _compile_block after statement i compiled
\* to r; the block's frame is the one at index cidx
compile_block_step(body, i, nodes, r, cidx) ==
    IF r.st.frames[cidx].may_return
    THEN compile_block_rest(nodes, r.node, r.st.frames[cidx],
             compile_block(SubSeq(body, i + 1, Len(body)),
                           Context_enter(r.st, BlockContext), "None"))
    ELSE compile_block_loop(body, i + 1, Append(nodes, r.node), r.st, cidx)

\* the for loop of _compile_block
compile_block_loop(body, i, nodes, st, cidx) ==
    IF i > Len(body) THEN [nodes |-> nodes, st |-> st]
    ELSE compile_block_step(body, i, nodes, compile_stmt(body[i], st), cidx)

\* the end of _compile_block: the frame is left and, unless the block is
\* the function's, its return options go to the enclosing frame
compile_block_exit(r, cidx, level) ==
    LET c == r.st.frames[cidx]
        st2 == Context_exit(r.st)
        st3 == IF c.may_return /\ level # "Returnable"
               THEN Context_setattr(
                      Context_setattr(
                        Context_setattr(st2, "may_return", TRUE),
                        "return_flag", c.return_flag),
                      "return_value", c.return_value)
               ELSE st2
    IN  Out(F_Execute(r.nodes), st3)

compile_block(body, st, level) ==
    compile_block_exit(
        compile_block_loop(body, 1, <<>>, Context_enter(st, BlockContext),
                           Len(st.frames) + 1),
        Len(st.frames) + 1, level)

\* the end of one `with context.use(BlockContext) as c:` part of
\* __compile_If__: b is the compiled block, c the frame at index cidx
compile_branch_exit(b, cidx) ==
    LET c == b.st.frames[cidx]
        m == may_return(c, b.node, b.st)
        bad == c.may_return /\ c.return_flag = ""
    IN  [node |-> IF bad THEN ErrorNode("ValueError") ELSE m.node,
         st |-> Context_exit(m.st),
         may_return |-> c.may_return,
         return_flag |-> IF c.may_return /\ ~bad
                         THEN RefNode(c.return_flag) ELSE F_false,
         return_value |-> IF c.may_return /\ c.return_value # ""
                          THEN RefNode(c.return_value) ELSE F_empty]

compile_branch(stmts, st) ==
    compile_branch_exit(
        compile_block(stmts, Context_enter(st, BlockContext), "None"),
        Len(st.frames) + 1)

\* one arm of the If that __compile_If__ builds when a branch may return
compile_If_arm(b, flag, value, flag_name, value_name) ==
    IF IsError(b) THEN b
    ELSE IF ~ExecuteNode_empty(b)
    THEN F_Execute(<<F_Assign(value_name, b),
                     F_Assign(flag_name, flag),
                     F_And(<<flag, F_Assign(value_name, value)>>)>>)
    ELSE F_empty

\* __compile_If__ after the test and both branches are compiled
compile_If_merge(test, th, el) ==
    IF th.may_return \/ el.may_return
    THEN LET st1 == Tick(Context_setattr(el.st, "may_return", TRUE))
             flag_name == anonymous(st1.counter)
             st2 == Tick(Context_setattr(st1, "return_flag", flag_name))
             value_name == anonymous(st2.counter)
             st3 == Context_setattr(st2, "return_value", value_name)
         IN  Out(F_Execute(<<
                   F_Assign(flag_name, F_false),
                   F_Assign(value_name, F_false),
                   F_If(test,
                        compile_If_arm(th.node, th.return_flag,
                                       th.return_value, flag_name, value_name),
                        compile_If_arm(el.node, el.return_flag,
                                       el.return_value, flag_name,
                                       value_name))>>),
                 st3)
    ELSE Out(F_If(test, th.node, el.node), el.st)

compile_If_orelse(if_, test, th) ==
    compile_If_merge(test, th, compile_branch(if_.orelse, th.st))

compile_If_body(if_, t) ==
    compile_If_orelse(if_, t.node, compile_branch(if_.body, t.st))

compile_If(if_, st) == compile_If_body(if_, compile_expr(if_.test, st))

compile_stmt(s, st) ==
    CASE s.ast = "Return" -> compile_Return(s, st)
      [] s.ast = "If" -> compile_If(s, st)
      [] s.ast = "Assign" -> compile_Assign(s, st)
      [] s.ast = "Expr" -> compile_expr(s.value, st)
      [] s.ast = "Pass" -> Out(F_empty, st)
      [] OTHER -> Out(ErrorNode("NotImplementedError"), st)

\* __compile_FunctionDef__ under compile()'s FunctionContext: the body of
\* function fname compiled with the counter at n
compile_FunctionDef(fname, body, n) ==
    LET st0 == [frames |-> <<FunctionContext(fname)>>, counter |-> n]
        r == compile_block(body, Context_enter(st0, BlockContext),
                           "Returnable")
    IN  Out(r.node, Context_exit(r.st))

----------------------------------------------------------------------------
(* The runtime that consumes the tree IR: registers by name, addressed     *)
(* memory, and the effects in the order they happen.  Execute yields its   *)
(* last element's value, If evaluates the condition and one branch, a      *)
(* built-in call evaluates its arguments left to right.  A Call that is    *)
(* not linked yet is an opaque call whose result the oracle gives.         *)

Event(ev, name, args) == [ev |-> ev, name |-> name, args |-> args]

Machine(regs, oracle) ==
    [regs |-> regs, mem |-> <<>>, oracle |-> oracle, trace |-> <<>>,
     val |-> Num(0)]

Lookup(f, k) == IF k \in DOMAIN f THEN f[k] ELSE Num(0)
Store(f, k, v) == [x \in DOMAIN f \cup {k} |-> IF x = k THEN v ELSE f[x]]

Builtin(name, a) ==
    CASE name = "Add" /\ Len(a) = 2 -> QAdd(a[1], a[2])
      [] name = "Subtract" /\ Len(a) = 2 -> QSub(a[1], a[2])
      [] name = "Multiply" /\ Len(a) = 2 -> QMul(a[1], a[2])
      [] name = "Equal" /\ Len(a) = 2 -> QBool(a[1] = a[2])
      [] name = "NotEqual" /\ Len(a) = 2 -> QBool(a[1] # a[2])
      [] name = "Less" /\ Len(a) = 2 -> QBool(QLess(a[1], a[2]))
      [] name = "LessOr" /\ Len(a) = 2 -> QBool(~QLess(a[2], a[1]))
      [] name = "Greater" /\ Len(a) = 2 -> QBool(QLess(a[2], a[1]))
      [] name = "GreaterOr" /\ Len(a) = 2 -> QBool(~QLess(a[1], a[2]))
      [] OTHER -> Num(0)

RECURSIVE Eval(_, _)
RECURSIVE EvalArgs(_, _, _, _)
RECURSIVE EvalSeq(_, _, _)

\* the arguments ns[i..], left to right; vals are the values so far
EvalArgs(ns, i, vals, m) ==
    IF i > Len(ns) THEN [m |-> m, vals |-> vals]
    ELSE LET m1 == Eval(ns[i], m)
         IN  EvalArgs(ns, i + 1, Append(vals, m1.val), m1)

EvalSeq(ns, i, m) ==
    IF i > Len(ns) THEN m ELSE EvalSeq(ns, i + 1, Eval(ns[i], m))

Eval(n, m) ==
    CASE n.kind = "Value" -> [m EXCEPT !.val = n.num]
      [] n.kind = "Ref" -> [m EXCEPT !.val = Lookup(m.regs, n.name)]
      [] n.kind = "Assign" ->
           LET m1 == Eval(n.value, m)
           IN  [m1 EXCEPT !.regs = Store(m1.regs, n.name, m1.val),
                          !.trace = Append(@, Event("assign", n.name,
                                                    <<m1.val>>))]
      [] n.kind = "Get" ->
           LET m1 == Eval(n.offset, m)
               a == <<n.block, n.index, m1.val>>
           IN  [m1 EXCEPT !.val = Lookup(m1.mem, a),
                          !.trace = Append(@, Event("get", "mem",
                              <<Num(n.block), Num(n.index), m1.val>>))]
      [] n.kind = "Set" ->
           LET m1 == Eval(n.offset, m)
               m2 == Eval(n.value, m1)
               a == <<n.block, n.index, m1.val>>
           IN  [m2 EXCEPT !.mem = Store(m2.mem, a, m2.val),
                          !.trace = Append(@, Event("set", "mem",
                              <<Num(n.block), Num(n.index), m1.val,
                                m2.val>>))]
      [] n.kind = "Execute" ->
           IF n.nodes = <<>> THEN [m EXCEPT !.val = Num(0)]
           ELSE EvalSeq(n.nodes, 1, m)
      [] n.kind = "Function" ->
           LET r == EvalArgs(n.args, 1, <<>>, m)
           IN  [r.m EXCEPT !.val = Builtin(n.name, r.vals),
                           !.trace = Append(@, Event("call", n.name, r.vals))]
      [] n.kind = "Call" ->
           LET r == EvalArgs(n.args, 1, <<>>, m)
           IN  [r.m EXCEPT !.val = Lookup(r.m.oracle, n.name),
                           !.trace = Append(@, Event("call", n.name, r.vals))]
      [] n.kind = "If" ->
           LET m1 == Eval(n.condition, m)
           IN  IF ~QZero(m1.val) THEN Eval(n.then, m1)
               ELSE Eval(n.orelse, m1)
      [] OTHER -> m

----------------------------------------------------------------------------
(* Bounds of the model.                                                    *)

MaxCounter == 1     \* the counter's value when a stage starts: 0..MaxCounter
MaxTrailing == 2    \* statements after `if cond: return v`
MaxChain == 3       \* operands of a comparison chain
MaxValue == 2       \* run-time values are 0..MaxValue
MaxArgs == 3        \* positional arguments of a call: 0..MaxArgs

NoFlow == [kind |-> "None"]
Idle == Machine(<<>>, <<>>)

RECURSIVE SeqsUpTo(_, _)
\* the sequences over S of length 0..n
SeqsUpTo(S, n) ==
    IF n = 0 THEN {<<>>}
    ELSE LET R == SeqsUpTo(S, n - 1)
         IN  R \cup {Append(r, x) : r \in {q \in R : Len(q) = n - 1}, x \in S}

Values == {Num(v) : v \in 0..MaxValue}

----------------------------------------------------------------------------
(* The front end: compile(func) on one function, then one run of the       *)
(* compiled tree.                                                          *)

EntryName == "f"

\* statements that follow the conditional return: a register write, a
\* memory write, a call
TrailStmts ==
    { AstAssign(AstName("t"), AstConstant(7)),
      AstAssign(AstAttribute(1, 2), AstConstant(5)),
      AstExpr(AstCall("Log", <<AstConstant(3)>>)) }

ReturnSources ==
    { [form |-> "return",
       body |-> <<AstIf(cond, <<AstReturn(v)>>, <<>>)>> \o trail,
       regs |-> [x \in {"f$c"} |-> c],
       oracle |-> [x \in {"Log", "g"} |-> Num(1)]] :
      cond \in {AstName("c"), AstConstant(1),
                AstCompare(AstName("c"), <<"Gt">>, <<AstConstant(0)>>)},
      v \in {AstConstant(1), AstName("c"), AstCall("g", <<>>)},
      trail \in SeqsUpTo(TrailStmts, MaxTrailing) \ {<<>>},
      c \in Values }

Operand(i) == "e" \o ToString(i)
Operands(n) == {Operand(i) : i \in 1..n}

CompareSources ==
    UNION { { [form |-> "compare",
               body |-> <<AstExpr(AstCompare(
                            AstCall(Operand(1), <<>>), ops,
                            [i \in 1..(n - 1) |->
                                AstCall(Operand(i + 1), <<>>)]))>>,
               regs |-> <<>>,
               oracle |-> o] :
              ops \in [1..(n - 1) -> {"Lt", "GtE"}],
              o \in [Operands(n) -> Values] } :
            n \in 2..MaxChain }

\* the shapes of a branch of an if/else: it returns a value, returns
\* without a value, does not return, is `pass`, or holds a conditional
\* return followed by one more statement
InnerReturn == AstIf(AstName("b"), <<AstReturn(AstConstant(1))>>, <<>>)

BranchShapes ==
    { <<AstReturn(AstConstant(1))>>,
      <<AstReturn(AstNone)>>,
      <<AstAssign(AstName("t"), AstConstant(7))>>,
      <<AstPass>>,
      <<InnerReturn, AstReturn(AstConstant(2))>>,
      <<InnerReturn, AstAssign(AstName("t"), AstConstant(7))>>,
      <<AstAssign(AstName("t"), AstConstant(7)), AstReturn(AstConstant(2))>> }

\* `if c: <then> else: <orelse>` (no else when orelse is empty), alone or
\* followed by `return 3`
BranchSources ==
    { [form |-> "branch",
       body |-> <<AstIf(AstName("c"), th, el)>> \o trail,
       regs |-> [x \in {"f$c", "f$b"} |-> IF x = "f$c" THEN c ELSE b],
       oracle |-> <<>>] :
      th \in BranchShapes,
      el \in BranchShapes \cup {<<>>},
      trail \in {<<>>, <<AstReturn(AstConstant(3))>>},
      c \in {Num(0), Num(1)},
      b \in {Num(0), Num(1)} }

InitCompile ==
    /\ pc = "source"
    /\ counter \in 0..MaxCounter
    /\ source \in ReturnSources \cup CompareSources \cup BranchSources
    /\ node = F_empty
    /\ flow = NoFlow
    /\ machine = Idle

\* compile(func, link=False) for a function that calls only opaque functions
CompileFunction ==
    /\ pc = "source"
    /\ LET r == compile_FunctionDef(EntryName, source.body, counter)
       IN  /\ node' = r.node
           /\ counter' = r.st.counter
    /\ pc' = "compiled"
    /\ UNCHANGED <<source, flow, machine>>

\* one run of the compiled tree on the source's registers and oracle
RunTree ==
    /\ pc = "compiled"
    /\ ~IsError(node)
    /\ machine' = Eval(node, Machine(source.regs, source.oracle))
    /\ pc' = "ran"
    /\ UNCHANGED <<source, counter, node, flow>>

NextCompile == CompileFunction \/ RunTree
SpecCompile == InitCompile /\ [][NextCompile]_vars

----------------------------------------------------------------------------
(* Properties of the front end.                                            *)

\* the value of the test of `if cond: return v` on the source's registers
CondHolds ==
    LET t == compile_expr(source.body[1].test,
                 [frames |-> <<FunctionContext(EntryName)>>, counter |-> 0])
    IN  ~QZero(Eval(t.node, Machine(source.regs, source.oracle)).val)

\* an effect that only a trailing statement has: the write of register t,
\* a memory write, the call of Log
TrailingEffect(e) ==
    \/ e.ev = "assign" /\ e.name = QualifiedName_var(EntryName, "t")
    \/ e.ev = "set"
    \/ e.ev = "call" /\ e.name = "Log"

\* C1: for a body `if cond: return v` followed by trailing statements, a
\* run of the compiled tree with cond true has none of the trailing
\* statements' register writes, memory writes or calls.
C1_TrailingSkipped ==
    (pc = "ran" /\ source.form = "return" /\ CondHolds)
        => \A p \in 1..Len(machine.trace) : ~TrailingEffect(machine.trace[p])

\* the number of times operand e_i was evaluated in the run
Evaluations(i) ==
    Cardinality({p \in 1..Len(machine.trace) :
                    /\ machine.trace[p].ev = "call"
                    /\ machine.trace[p].name = Operand(i)})

ChainLength == Len(source.body[1].value.ops) + 1

\* C5: a run of the tree compiled from a comparison chain e1 op1 ... en
\* evaluates each operand e_i at most once, the middle operands included.
C5_OperandOnce ==
    (pc = "ran" /\ source.form = "compare")
        => \A i \in 1..ChainLength : Evaluations(i) <= 1

IsComparison(e) ==
    /\ e.ev = "call"
    /\ e.name \in {CompareFunction(op) :
                     op \in {"Eq", "NotEq", "Lt", "LtE", "Gt", "GtE"}}

FalseComparison(e) == IsComparison(e) /\ QZero(Builtin(e.name, e.args))

\* C6: in a run of a comparison chain, once a comparison is false nothing
\* is evaluated after it (no operand, no comparison) and the chain's value
\* is false; so the k-th comparison and its right operand run only after
\* comparisons 1..k-1 were all true.
C6_ShortCircuit ==
    (pc = "ran" /\ source.form = "compare")
        => \A p \in 1..Len(machine.trace) :
             FalseComparison(machine.trace[p])
                 => /\ \A q \in (p + 1)..Len(machine.trace) :
                          machine.trace[q].ev # "call"
                    /\ QZero(machine.val)

\* a chain of three operands whose first comparison was false has run
C6_Witness ==
    /\ pc = "ran"
    /\ source.form = "compare"
    /\ ChainLength >= 3
    /\ \E p \in 1..Len(machine.trace) :
          /\ FalseComparison(machine.trace[p])
          /\ \A q \in 1..(p - 1) : ~IsComparison(machine.trace[q])

RECURSIVE MayReturn(_)
\* a return statement occurs somewhere in the block
MayReturn(stmts) ==
    \E i \in 1..Len(stmts) :
        \/ stmts[i].ast = "Return"
        \/ /\ stmts[i].ast = "If"
           /\ (MayReturn(stmts[i].body) \/ MayReturn(stmts[i].orelse))

RECURSIVE Returns(_, _, _)
\* Python's reading of the block from statement i on: a return statement
\* is executed when the tests are the registers regs
Returns(stmts, i, regs) ==
    IF i > Len(stmts) THEN FALSE
    ELSE CASE stmts[i].ast = "Return" -> TRUE
           [] stmts[i].ast = "If" ->
                \/ IF ~QZero(regs[QualifiedName_var(EntryName,
                                                    stmts[i].test.id)])
                   THEN Returns(stmts[i].body, 1, regs)
                   ELSE Returns(stmts[i].orelse, 1, regs)
                \/ Returns(stmts, i + 1, regs)
           [] OTHER -> Returns(stmts, i + 1, regs)

\* a branch of one of the four shapes: one statement that is not a
\* conditional, or no statement
Plain(stmts) == Len(stmts) = 0 \/ (Len(stmts) = 1 /\ stmts[1].ast # "If")

Conditional == source.body[1]
SomeBranchMayReturn ==
    MayReturn(Conditional.body) \/ MayReturn(Conditional.orelse)

\* the branch of the conditional that the source's registers select
BranchTaken ==
    IF ~QZero(source.regs["f$c"]) THEN Conditional.body
    ELSE Conditional.orelse

\* the register that __compile_If__ makes the block's return_flag: the
\* tree of a conditional that may return starts with its reset
MergedFlag == node.nodes[1].name

MergedFlagSet == ~QZero(Lookup(machine.regs, MergedFlag))

\* C17: an if/else of which at least one branch may return compiles for
\* every combination of the branch shapes (returns a value, returns
\* without a value, does not return, is empty), and after a run the merged
\* return flag is true exactly when the branch that ran executed a return.
C17_BranchShapes ==
    (/\ source.form = "branch"
     /\ Plain(Conditional.body) /\ Plain(Conditional.orelse)
     /\ SomeBranchMayReturn)
        => /\ pc = "compiled" => ~IsError(node)
           /\ pc = "ran" =>
                  (MergedFlagSet <=> Returns(BranchTaken, 1, source.regs))

\* the frame that encloses the function's block after the body is compiled
EnclosingFrame ==
    compile_block(source.body,
        [frames |-> <<FunctionContext(EntryName), BlockContext>>,
         counter |-> 0],
        "Returnable").st.frames[2]

\* the then-branch compiled on its own: what its block hands to the
\* `with` frame of __compile_If__
ThenBranch ==
    compile_branch(Conditional.body,
        [frames |-> <<FunctionContext(EntryName), BlockContext>>,
         counter |-> 0])

\* C18: a non-returnable block of which a statement may return marks the
\* enclosing block as may-return, the function's block marks nothing, and
\* the flag handed to the enclosing block is true after a run whenever a
\* return inside the block executed, one after the block's first
\* may-return statement included.
C18_FlagPropagates ==
    source.form = "branch"
        => /\ pc = "compiled" =>
                  /\ ThenBranch.may_return = MayReturn(Conditional.body)
                  /\ ~EnclosingFrame.may_return
           /\ (pc = "ran" /\ Returns(BranchTaken, 1, source.regs))
                  => MergedFlagSet

----------------------------------------------------------------------------
(* CompiledFunction (compiler/function.py).  A dict is a sequence of       *)
(* [key, arg] entries in insertion order; a parameter without a default    *)
(* has NoDefault.                                                          *)

NoDefault == [kind |-> "None"]
Parameter(name, default) == [name |-> name, default |-> default]
ParameterList(params, va_args) == [params |-> params, va_args |-> va_args]
CompiledFunction(name, params, n) ==
    [name |-> name, params |-> params, node |-> n]

DictKeys(kw) == {kw[i].key : i \in 1..Len(kw)}
DictSet(kw, k, v) ==
    IF k \in DictKeys(kw)
    THEN [i \in 1..Len(kw) |->
             IF kw[i].key = k THEN [key |-> k, arg |-> v] ELSE kw[i]]
    ELSE Append(kw, [key |-> k, arg |-> v])

CompiledFunction_param(fn, name) == fn.name \o "$" \o name

\* the register of the k-th surplus positional argument
VarargName(fn, k) ==
    CompiledFunction_param(fn, fn.params.va_args \o "$" \o ToString(k))

\* a binding that leaves the positional arguments out
SkipPositional(params, args, i, kw) == kw

RECURSIVE BindPositional(_, _, _, _)
\* for param, arg in zip(self.params.params, args): kwargs[param.name] = arg
BindPositional(params, args, i, kw) ==
    IF i > Len(params) \/ i > Len(args) THEN kw
    ELSE BindPositional(params, args, i + 1,
                        DictSet(kw, params[i].name, args[i]))

RECURSIVE BindVarargs(_, _, _, _)
\* kwargs[f"{va_args}${i+1}"] = arg for the arguments after the parameters
BindVarargs(fn, args, k, kw) ==
    IF Len(fn.params.params) + k > Len(args) THEN kw
    ELSE BindVarargs(fn, args, k + 1,
             DictSet(kw, fn.params.va_args \o "$" \o ToString(k),
                     args[Len(fn.params.params) + k]))

MissingParameter(params, kw) ==
    \E i \in 1..Len(params) :
        params[i].name \notin DictKeys(kw) /\ params[i].default = NoDefault

\* the first parameter, in declaration order, with no value and no default
FirstMissing(params, kw) ==
    params[CHOOSE i \in 1..Len(params) :
              /\ params[i].name \notin DictKeys(kw)
              /\ params[i].default = NoDefault
              /\ \A j \in 1..(i - 1) :
                    params[j].name \in DictKeys(kw)
                        \/ params[j].default # NoDefault].name

RECURSIVE BindDefaults(_, _, _)
BindDefaults(params, i, kw) ==
    IF i > Len(params) THEN kw
    ELSE BindDefaults(params, i + 1,
             IF params[i].name \in DictKeys(kw) THEN kw
             ELSE DictSet(kw, params[i].name, params[i].default))

\* the unit of _resolve_nested: the node that holds two operands
NestedUnit(n, left, right) ==
    IF n.kind = "Function" THEN FunctionNode(n.name, <<left, right>>)
    ELSE F_Call(n.name, <<left, right>>, n.kwargs)

RECURSIVE resolve_nested(_, _, _, _)
\* reduce(lambda a, b: unit(b, a), Ref(va$n), ..., Ref(va$1)), from va$i on
resolve_nested(fn, n, i, arg_count) ==
    IF i = arg_count THEN RefNode(VarargName(fn, i))
    ELSE NestedUnit(n, RefNode(VarargName(fn, i)),
                    resolve_nested(fn, n, i + 1, arg_count))

RECURSIVE resolve_starred(_, _, _)

\* rebuilds a Function or a Call with new arguments
WithArgs(n, args) ==
    IF HasError(args) THEN FirstError(args)
    ELSE IF n.kind = "Function" THEN FunctionNode(n.name, args)
    ELSE F_Call(n.name, args, n.kwargs)

\* _resolve_starred_FunctionNode and _resolve_starred_CallNode
resolve_starred_call(fn, n, arg_count) ==
    IF Len(n.args) = 0 THEN n
    ELSE IF n.args[Len(n.args)].kind = "Starred"
    THEN IF n.args[Len(n.args)].nested
         THEN IF Len(n.args) = 1
              THEN resolve_nested(fn, n, 1, arg_count)
              ELSE WithArgs(n, <<n.args[1],
                                 resolve_nested(fn, n, 1, arg_count)>>)
         ELSE WithArgs(n, SubSeq(n.args, 1, Len(n.args) - 1)
                          \o [k \in 1..arg_count |->
                                 RefNode(VarargName(fn, k))])
    ELSE WithArgs(n, [i \in 1..Len(n.args) |->
                         resolve_starred(fn, n.args[i], arg_count)])

resolve_starred(fn, n, arg_count) ==
    CASE n.kind \in {"Function", "Call"} ->
           resolve_starred_call(fn, n, arg_count)
      [] n.kind = "Starred" -> ErrorNode("TypeError: StarredNode not resolved")
      [] n.kind = "Assign" ->
           F_Assign(n.name, resolve_starred(fn, n.value, arg_count))
      [] n.kind = "Execute" ->
           F_Execute([i \in 1..Len(n.nodes) |->
                         resolve_starred(fn, n.nodes[i], arg_count)])
      [] n.kind = "If" ->
           F_If(resolve_starred(fn, n.condition, arg_count),
                resolve_starred(fn, n.then, arg_count),
                resolve_starred(fn, n.orelse, arg_count))
      [] n.kind = "While" ->
           F_While(resolve_starred(fn, n.condition, arg_count),
                   resolve_starred(fn, n.body, arg_count))
      [] OTHER -> n

\* the body that call() inlines
CallBody(fn, args) ==
    IF Len(args) > Len(fn.params.params)
    THEN resolve_starred(fn, fn.node, Len(args) - Len(fn.params.params))
    ELSE fn.node

\* the end of call(): kw is the dict after all the bindings
CallResult(fn, args, kw) ==
    F_Execute([i \in 1..Len(kw) |->
                  F_Assign(CompiledFunction_param(fn, kw[i].key), kw[i].arg)]
              \o <<CallBody(fn, args)>>)

\* call() after the positional parameters are bound
CallBound(fn, args, kw) ==
    IF Len(args) > Len(fn.params.params) /\ fn.params.va_args = ""
    THEN ErrorNode("TypeError: Too many arguments for " \o fn.name)
    ELSE IF MissingParameter(fn.params.params, BindVarargs(fn, args, 1, kw))
    THEN ErrorNode("TypeError: Function " \o fn.name
                       \o " missing parameter "
                       \o FirstMissing(fn.params.params,
                                       BindVarargs(fn, args, 1, kw)))
    ELSE CallResult(fn, args,
             BindDefaults(fn.params.params, 1, BindVarargs(fn, args, 1, kw)))

CompiledFunction_call(fn, args, kwargs) ==
    CallBound(fn, args, BindPositional(fn.params.params, args, 1, kwargs))

----------------------------------------------------------------------------
(* CompileOutput.link (compiler/compile.py).  _link has one registered     *)
(* rule, for Call; every other node goes through its own apply, and the    *)
(* nodes that define no apply (Value, Ref, Get, Set, Starred) come back    *)
(* as they are.  The set `recursive` is passed down: add and remove are    *)
(* balanced around the inlined body, and a raise ends the whole link.      *)

RECURSIVE link(_, _, _)

link_all(fs, ns, recursive) ==
    [i \in 1..Len(ns) |-> link(fs, ns[i], recursive)]

link_kwargs(fs, kw, recursive) ==
    [i \in 1..Len(kw) |->
        [key |-> kw[i].key, arg |-> link(fs, kw[i].arg, recursive)]]

\* _link_CallNode once the arguments are linked
link_inline(fs, name, args, kwargs, recursive) ==
    IF HasError(args) THEN FirstError(args)
    ELSE IF \E i \in 1..Len(kwargs) : IsError(kwargs[i].arg)
    THEN kwargs[CHOOSE i \in 1..Len(kwargs) : IsError(kwargs[i].arg)].arg
    ELSE IF name \in recursive
    THEN ErrorNode("RuntimeError: Recursive call detected")
    ELSE IF name \notin DOMAIN fs THEN ErrorNode("KeyError")
    ELSE link(fs, CompiledFunction_call(fs[name], args, kwargs),
              recursive \cup {name})

link_CallNode(fs, entry, recursive) ==
    link_inline(fs, entry.name, link_all(fs, entry.args, recursive),
                link_kwargs(fs, entry.kwargs, recursive), recursive)

\* FunctionNode.apply builds the node directly
FunctionNode_apply(name, args) ==
    IF HasError(args) THEN FirstError(args) ELSE FunctionNode(name, args)

link(fs, n, recursive) ==
    CASE n.kind = "Call" -> link_CallNode(fs, n, recursive)
      [] n.kind = "Function" ->
           FunctionNode_apply(n.name, link_all(fs, n.args, recursive))
      [] n.kind = "Assign" -> F_Assign(n.name, link(fs, n.value, recursive))
      [] n.kind = "Execute" -> F_Execute(link_all(fs, n.nodes, recursive))
      [] n.kind = "If" ->
           F_If(link(fs, n.condition, recursive), link(fs, n.then, recursive),
                link(fs, n.orelse, recursive))
      [] n.kind = "While" ->
           F_While(link(fs, n.condition, recursive),
                   link(fs, n.body, recursive))
      [] OTHER -> n

CompileOutput(entry, functions) == [entry |-> entry, functions |-> functions]

CompileOutput_link(output) ==
    link(output.functions, output.functions[output.entry].node, {})

----------------------------------------------------------------------------
(* Linking: programs of three functions, each with one defaulted           *)
(* parameter; a body holds its calls under one node kind.                  *)

FunctionNames == {"f", "g", "h"}

\* the body of function x that calls y under the node kind `under`
Body(under, x, y) ==
    CASE under = "leaf" -> ValueNode(Num(1))
      [] under = "argument" ->
           FunctionNode("Add", <<CallNode(y, <<>>, <<>>), ValueNode(Num(1))>>)
      [] under = "assign" ->
           AssignNode(QualifiedName_var(x, "r"), CallNode(y, <<>>, <<>>))
      [] under = "branch" ->
           IfNode(RefNode(QualifiedName_var(x, "x")),
                  CallNode(y, <<>>, <<>>), F_false)
      [] under = "set" ->
           SetNode(1, 2, ValueNode(Num(0)), CallNode(y, <<>>, <<>>))
      [] under = "get" -> GetNode(1, 2, CallNode(y, <<>>, <<>>))
      [] under = "sequence" ->
           ExecuteNode(<<CallNode(y, <<>>, <<>>), CallNode(y, <<>>, <<>>)>>)
      [] under = "nested" ->
           CallNode(y, <<CallNode(y,
                     <<RefNode(QualifiedName_var(x, "x"))>>, <<>>)>>,
                    <<>>)

Unders ==
    {"argument", "assign", "branch", "set", "get", "sequence", "nested"}

Programs ==
    { [form |-> "program",
       output |-> CompileOutput("f",
           [x \in FunctionNames |->
               CompiledFunction(x,
                   ParameterList(<<Parameter("x", ValueNode(Num(0)))>>, ""),
                   Body(under[x], x, callee[x]))])] :
      under \in [FunctionNames -> Unders \cup {"leaf"}],
      callee \in [FunctionNames -> FunctionNames] }

InitLink ==
    /\ pc = "program"
    /\ counter = 0
    /\ source \in Programs
    /\ node = F_empty
    /\ flow = NoFlow
    /\ machine = Idle

\* output.link()
Link ==
    /\ pc = "program"
    /\ node' = CompileOutput_link(source.output)
    /\ pc' = "linked"
    /\ UNCHANGED <<counter, source, flow, machine>>

NextLink == Link
SpecLink == InitLink /\ [][NextLink]_vars

RECURSIVE CallNames(_)
\* the names of the Call nodes of a tree, at any depth
CallNames(n) ==
    CASE n.kind = "Call" ->
           {n.name}
               \cup UNION {CallNames(n.args[i]) : i \in 1..Len(n.args)}
               \cup UNION {CallNames(n.kwargs[i].arg) : i \in 1..Len(n.kwargs)}
      [] n.kind = "Function" ->
           UNION {CallNames(n.args[i]) : i \in 1..Len(n.args)}
      [] n.kind = "Assign" -> CallNames(n.value)
      [] n.kind = "Execute" ->
           UNION {CallNames(n.nodes[i]) : i \in 1..Len(n.nodes)}
      [] n.kind = "If" ->
           CallNames(n.condition) \cup CallNames(n.then)
               \cup CallNames(n.orelse)
      [] n.kind = "While" -> CallNames(n.condition) \cup CallNames(n.body)
      [] n.kind = "Get" -> CallNames(n.offset)
      [] n.kind = "Set" -> CallNames(n.offset) \cup CallNames(n.value)
      [] OTHER -> {}

\* the functions that x calls
Callees(output, x) == CallNames(output.functions[x].node)

RECURSIVE Reach(_, _)
\* the functions reachable from the set S by zero or more calls
Reach(output, S) ==
    LET T == S \cup UNION {Callees(output, x) : x \in S}
    IN  IF T = S THEN S ELSE Reach(output, T)

\* the call graph reachable from the entry has a cycle
Cyclic(output) ==
    \E x \in Reach(output, {output.entry}) :
        x \in Reach(output, Callees(output, x))

\* C2: link() on a program whose call graph has no cycle returns a tree
\* with no Call node at any depth, whatever node kind the call sits under.
C2_NoCallLeft ==
    (pc = "linked" /\ ~Cyclic(source.output))
        => (~IsError(node) /\ CallNames(node) = {})

\* C3: link() raises 'Recursive call detected' exactly when the call graph
\* reachable from the entry has a cycle.
C3_RecursionExact ==
    pc = "linked"
        => ((node = ErrorNode("RuntimeError: Recursive call detected"))
                <=> Cyclic(source.output))

----------------------------------------------------------------------------
(* Calling: one CompiledFunction.call on a function f of up to two         *)
(* parameters x, y, with or without defaults and a variadic tail.          *)

ParameterLists ==
    { ParameterList(ps, va) :
        ps \in {<<>>}
           \cup {<<Parameter("x", dx)>> :
                   dx \in {NoDefault, ValueNode(Num(7))}}
           \cup {<<Parameter("x", dx), Parameter("y", dy)>> :
                   dx \in {NoDefault, ValueNode(Num(7))},
                   dy \in {NoDefault, ValueNode(Num(8))}},
        va \in {"", "args"} }

\* callee bodies: without a placeholder, with *args, with a nested
\* placeholder, a block, a placeholder in an argument of a call that ends
\* in a placeholder, a user call, and a call of three arguments
CalleeBodies ==
    { RefNode("f$x"),
      FunctionNode("Add", <<RefNode("f$x"), StarredNode(FALSE)>>),
      FunctionNode("Max", <<StarredNode(TRUE)>>),
      ExecuteNode(<<AssignNode("f$t",
                        FunctionNode("Max",
                            <<RefNode("f$x"), StarredNode(TRUE)>>)),
                    RefNode("f$t")>>),
      FunctionNode("Add", <<FunctionNode("Max", <<StarredNode(FALSE)>>),
                            StarredNode(FALSE)>>),
      FunctionNode("Max", <<FunctionNode("Min", <<StarredNode(TRUE)>>),
                            StarredNode(TRUE)>>),
      F_Call("g", <<StarredNode(TRUE)>>, <<>>),
      FunctionNode("Max", <<RefNode("f$x"), RefNode("f$y"),
                            StarredNode(TRUE)>>) }

KeywordArgs ==
    { <<>>,
      <<[key |-> "x", arg |-> ValueNode(Num(21))]>>,
      <<[key |-> "y", arg |-> ValueNode(Num(22))]>>,
      <<[key |-> "x", arg |-> ValueNode(Num(21))],
        [key |-> "y", arg |-> ValueNode(Num(22))]>>,
      <<[key |-> "y", arg |-> ValueNode(Num(22))],
        [key |-> "x", arg |-> ValueNode(Num(21))]>>,
      <<[key |-> "z", arg |-> ValueNode(Num(23))]>> }

Calls ==
    { [form |-> "call",
       fn |-> CompiledFunction("f", ps, b),
       args |-> [i \in 1..n |-> ValueNode(Num(i))],
       kwargs |-> kw] :
      ps \in ParameterLists, b \in CalleeBodies, n \in 0..MaxArgs,
      kw \in KeywordArgs }

InitCall ==
    /\ pc = "call"
    /\ counter = 0
    /\ source \in Calls
    /\ node = F_empty
    /\ flow = NoFlow
    /\ machine = Idle

\* fn.call(args, kwargs)
Call ==
    /\ pc = "call"
    /\ node' = CompiledFunction_call(source.fn, source.args, source.kwargs)
    /\ pc' = "called"
    /\ UNCHANGED <<counter, source, flow, machine>>

NextCall == Call
SpecCall == InitCall /\ [][NextCall]_vars

Declared == source.fn.params.params
Surplus ==
    IF Len(source.args) > Len(Declared)
    THEN Len(source.args) - Len(Declared) ELSE 0
KeywordValue(name) ==
    source.kwargs[CHOOSE i \in 1..Len(source.kwargs) :
                     source.kwargs[i].key = name].arg
TooManyArguments == Surplus > 0 /\ source.fn.params.va_args = ""
Unbound(i) ==
    /\ i > Len(source.args)
    /\ Declared[i].name \notin DictKeys(source.kwargs)
MissingArgument ==
    \E i \in 1..Len(Declared) : Unbound(i) /\ Declared[i].default = NoDefault
ResultNodes == IF node.kind = "Execute" THEN node.nodes ELSE <<node>>
\* the number of registers that the call binds
BoundCount ==
    Cardinality({Declared[i].name : i \in 1..Len(Declared)}
                    \cup DictKeys(source.kwargs))
        + Surplus
Register(name) == "f$" \o name

\* C10: call(args, kwargs) binds the i-th positional argument to the i-th
\* parameter, the surplus ones to {vararg}$1..$N in order when a variadic
\* tail is declared and raises 'too many arguments' otherwise, gives an
\* unbound parameter its default and raises 'missing parameter' when it
\* has none; the result is the assignment of every bound register, once,
\* followed by the callee body (its placeholders expanded to the surplus
\* registers when there are surplus arguments).
C10_CallBinds ==
    pc = "called" =>
      IF TooManyArguments
      THEN node = ErrorNode("TypeError: Too many arguments for f")
      ELSE IF MissingArgument
      THEN \E i \in 1..Len(Declared) :
              /\ Unbound(i) /\ Declared[i].default = NoDefault
              /\ \A j \in 1..(i - 1) :
                    ~Unbound(j) \/ Declared[j].default # NoDefault
              /\ node = ErrorNode("TypeError: Function f missing parameter "
                                      \o Declared[i].name)
      ELSE
        /\ ~IsError(node)
        /\ Len(ResultNodes) >= BoundCount
        /\ \A i \in 1..BoundCount : ResultNodes[i].kind = "Assign"
        /\ \A i, j \in 1..BoundCount :
              ResultNodes[i].name = ResultNodes[j].name => i = j
        /\ \A i \in 1..Len(Declared) :
              \E j \in 1..BoundCount :
                 ResultNodes[j] =
                   AssignNode(Register(Declared[i].name),
                       IF i <= Len(source.args) THEN source.args[i]
                       ELSE IF Unbound(i) THEN Declared[i].default
                       ELSE KeywordValue(Declared[i].name))
        /\ \A k \in 1..Surplus :
              \E j \in 1..BoundCount :
                 /\ ResultNodes[j] =
                      AssignNode(Register("args$" \o ToString(k)),
                                 source.args[Len(Declared) + k])
                 /\ \A k2 \in 1..(k - 1) : \E j2 \in 1..(j - 1) :
                       ResultNodes[j2].name = Register("args$" \o ToString(k2))
        /\ SubSeq(ResultNodes, BoundCount + 1, Len(ResultNodes))
             = FlattenNodes(<<IF Surplus = 0 THEN source.fn.node
                              ELSE resolve_starred(source.fn, source.fn.node,
                                                   Surplus)>>)
        /\ (Surplus = 0 \/ source.fn.node = RefNode("f$x")
              => SubSeq(ResultNodes, BoundCount + 1, Len(ResultNodes))
                   = FlattenNodes(<<source.fn.node>>))

\* a call with one declared parameter bound positionally, two surplus
\* arguments bound to the variadic tail, and a keyword argument
C10_Witness ==
    /\ pc = "called"
    /\ ~IsError(node)
    /\ Len(Declared) = 1
    /\ Surplus = 2
    /\ source.kwargs # <<>>
    /\ Len(ResultNodes) > BoundCount

RECURSIVE SubNodes(_)
\* the nodes of a tree, at any depth
SubNodes(n) ==
    {n} \cup
    CASE n.kind \in {"Function", "Call"} ->
           UNION {SubNodes(n.args[i]) : i \in 1..Len(n.args)}
               \cup (IF n.kind = "Call"
                     THEN UNION {SubNodes(n.kwargs[i].arg) :
                                    i \in 1..Len(n.kwargs)}
                     ELSE {})
      [] n.kind = "Assign" -> SubNodes(n.value)
      [] n.kind = "Execute" ->
           UNION {SubNodes(n.nodes[i]) : i \in 1..Len(n.nodes)}
      [] n.kind = "If" ->
           SubNodes(n.condition) \cup SubNodes(n.then)
               \cup SubNodes(n.orelse)
      [] n.kind = "While" -> SubNodes(n.condition) \cup SubNodes(n.body)
      [] n.kind = "Get" -> SubNodes(n.offset)
      [] n.kind = "Set" -> SubNodes(n.offset) \cup SubNodes(n.value)
      [] OTHER -> {}

HasStarred(n) == \E m \in SubNodes(n) : m.kind = "Starred"

\* the call has surplus positional arguments and a variadic tail for them
Variadic == Surplus >= 1 /\ source.fn.params.va_args # ""

\* the registers of the surplus arguments, in call order
VarargRefs == [k \in 1..Surplus |-> RefNode(Register("args$" \o ToString(k)))]

\* the calls of the callee body that end in a placeholder
StarredCalls(kinds, nested) ==
    {m \in SubNodes(source.fn.node) :
        /\ m.kind \in kinds
        /\ Len(m.args) > 0
        /\ m.args[Len(m.args)] = StarredNode(nested)}

\* C11: with N >= 1 surplus arguments and a variadic tail, every built-in
\* call of the body whose last argument is a non-nested Starred is replaced
\* in the result by the same built-in with the arguments before the
\* placeholder kept in place and followed by the registers args$1..args$N
\* in call order.
C11_SplicesVarargs ==
    (pc = "called" /\ Variadic /\ ~IsError(node)) =>
        \A m \in StarredCalls({"Function"}, FALSE) :
            /\ m \notin SubNodes(node)
            /\ (\A i \in 1..(Len(m.args) - 1) : ~HasStarred(m.args[i]))
                  => FunctionNode(m.name,
                         SubSeq(m.args, 1, Len(m.args) - 1) \o VarargRefs)
                       \in SubNodes(node)

RECURSIVE FoldRight(_, _)
\* op(r1, op(r2, ... op(r(N-1), rN))), the bare register for one
FoldRight(m, regs) ==
    IF Len(regs) = 1 THEN regs[1]
    ELSE NestedUnit(m, regs[1], FoldRight(m, Tail(regs)))

\* C12: with N >= 1 surplus arguments r1..rN and a variadic tail, every
\* call of the body whose last argument is a nested Starred has the
\* placeholder replaced by the right fold op(r1, op(r2, ... op(r(N-1), rN)))
\* of its own operation over the registers in call order (the bare
\* register for N = 1).
C12_NestedFolds ==
    (pc = "called" /\ Variadic /\ ~IsError(node)) =>
        \A m \in StarredCalls({"Function", "Call"}, TRUE) :
            /\ m \notin SubNodes(node)
            /\ \E r \in SubNodes(node) :
                  IF Len(m.args) = 1 THEN r = FoldRight(m, VarargRefs)
                  ELSE /\ r.kind = m.kind
                       /\ r.name = m.name
                       /\ r.args[Len(r.args)] = FoldRight(m, VarargRefs)

\* C13: the tree returned by call() holds no Starred node, for any number
\* of surplus positional arguments, zero included: every placeholder of
\* the body is expanded or an error is raised.
C13_NoStarredLeft == pc = "called" => ~HasStarred(node)

----------------------------------------------------------------------------
(* Overloading (compiler/function.py, compiler/pre_compiled.py): a         *)
(* CompiledOverloadedFunction is the base function with the list of the    *)
(* later registrations of the same name; pre_compile registers them one    *)
(* by one and a call tries the base first, then the list in order.         *)

MaxOverloads == 2   \* registrations after the base one

IsOverloaded(fn) == "overloads" \in DOMAIN fn

\* CompiledOverloadedFunction.overload
CompiledOverloadedFunction_overload(func, overloaded) ==
    IF IsOverloaded(func)
    THEN [func EXCEPT !.overloads = Append(@, overloaded)]
    ELSE [name |-> func.name, params |-> func.params, node |-> func.node,
          overloads |-> <<overloaded>>]

\* the TypeErrors that CompiledFunction.call raises for fn
IsTypeError(fn, r) ==
    /\ IsError(r)
    /\ r.msg \in {"TypeError: Too many arguments for " \o fn.name,
                  "TypeError: StarredNode not resolved"}
                 \cup {"TypeError: Function " \o fn.name
                           \o " missing parameter " \o fn.params.params[i].name :
                         i \in 1..Len(fn.params.params)}

RECURSIVE KeepFirstError(_, _, _, _, _)
\* the loop over the overloads without `err = e`
KeepFirstError(overloads, i, args, kwargs, err) ==
    IF i > Len(overloads) THEN err
    ELSE IF IsTypeError(overloads[i],
                        CompiledFunction_call(overloads[i], args, kwargs))
    THEN KeepFirstError(overloads, i + 1, args, kwargs, err)
    ELSE CompiledFunction_call(overloads[i], args, kwargs)

RECURSIVE TryOverloads(_, _, _, _, _)
\* for overload in self.overloads: try: return overload.call(args, kwargs)
\* except TypeError as e: err = e; then raise err
TryOverloads(overloads, i, args, kwargs, err) ==
    IF i > Len(overloads) THEN err
    ELSE IF IsTypeError(overloads[i],
                        CompiledFunction_call(overloads[i], args, kwargs))
    THEN TryOverloads(overloads, i + 1, args, kwargs,
                      CompiledFunction_call(overloads[i], args, kwargs))
    ELSE CompiledFunction_call(overloads[i], args, kwargs)

\* CompiledOverloadedFunction.call; a function with one registration is a
\* CompiledFunction
CompiledOverloadedFunction_call(fn, args, kwargs) ==
    IF IsOverloaded(fn)
          /\ IsTypeError(fn, CompiledFunction_call(fn, args, kwargs))
    THEN TryOverloads(fn.overloads, 1, args, kwargs,
                      CompiledFunction_call(fn, args, kwargs))
    ELSE CompiledFunction_call(fn, args, kwargs)

\* the registrations of one name: by number of parameters, with a default,
\* variadic like builtins.max, and two of the same arity
Overloadable ==
    { CompiledFunction("f", ParameterList(<<>>, ""), ValueNode(Num(0))),
      CompiledFunction("f", ParameterList(<<Parameter("x", NoDefault)>>, ""),
                       FunctionNode("Abs", <<RefNode("f$x")>>)),
      CompiledFunction("f", ParameterList(<<Parameter("x", NoDefault)>>, ""),
                       FunctionNode("Sign", <<RefNode("f$x")>>)),
      CompiledFunction("f",
          ParameterList(<<Parameter("x", NoDefault),
                          Parameter("y", ValueNode(Num(8)))>>, ""),
          FunctionNode("Add", <<RefNode("f$x"), RefNode("f$y")>>)),
      CompiledFunction("f",
          ParameterList(<<Parameter("x", NoDefault),
                          Parameter("y", NoDefault),
                          Parameter("z", NoDefault)>>, ""),
          FunctionNode("Clamp",
                       <<RefNode("f$x"), RefNode("f$y"), RefNode("f$z")>>)),
      CompiledFunction("f", ParameterList(<<>>, "args"),
                       FunctionNode("Max", <<StarredNode(TRUE)>>)) }

OverloadedCalls ==
    { [form |-> "overload",
       fn |-> f,
       args |-> [i \in 1..n |-> ValueNode(Num(i))],
       kwargs |-> kw] :
      f \in Overloadable, n \in 0..MaxArgs,
      kw \in {<<>>, <<[key |-> "y", arg |-> ValueNode(Num(22))]>>} }

InitOverload ==
    /\ pc = "registry"
    /\ counter = 0
    /\ source \in OverloadedCalls
    /\ node = F_empty
    /\ flow = NoFlow
    /\ machine = Idle

\* one more @pre_compile of the same qualified name
Overload ==
    /\ pc = "registry"
    /\ IF IsOverloaded(source.fn)
       THEN Len(source.fn.overloads) < MaxOverloads ELSE TRUE
    /\ \E overloaded \in Overloadable :
          source' = [source EXCEPT
                        !.fn = CompiledOverloadedFunction_overload(
                                   source.fn, overloaded)]
    /\ UNCHANGED <<pc, counter, node, flow, machine>>

\* fn.call(args, kwargs) on the registered function
CallOverloaded ==
    /\ pc = "registry"
    /\ node' = CompiledOverloadedFunction_call(source.fn, source.args,
                                               source.kwargs)
    /\ pc' = "dispatched"
    /\ UNCHANGED <<counter, source, flow, machine>>

NextOverload == Overload \/ CallOverloaded
SpecOverload == InitOverload /\ [][NextOverload]_vars

\* the registrations in registration order, the base first
Registered ==
    <<CompiledFunction(source.fn.name, source.fn.params, source.fn.node)>>
        \o (IF IsOverloaded(source.fn) THEN source.fn.overloads ELSE <<>>)

\* the parameter contract of a registration
Bound(r, i) ==
    i <= Len(source.args)
        \/ r.params.params[i].name \in DictKeys(source.kwargs)
Required(r) ==
    {i \in 1..Len(r.params.params) :
        r.params.params[i].default = NoDefault /\ ~Bound(r, i)}
Exceeds(r) ==
    Len(source.args) > Len(r.params.params) /\ r.params.va_args = ""
Accepts(r) == ~Exceeds(r) /\ Required(r) = {}

\* the error that a registration's contract raises
ContractError(r) ==
    IF Exceeds(r)
    THEN ErrorNode("TypeError: Too many arguments for " \o r.name)
    ELSE ErrorNode("TypeError: Function " \o r.name \o " missing parameter "
              \o r.params.params[CHOOSE i \in Required(r) :
                                    \A j \in Required(r) : i <= j].name)

Accepting == {i \in 1..Len(Registered) : Accepts(Registered[i])}

\* the call is dispatched to the first registration that accepts it
DispatchedToFirst ==
    Accepting # {} =>
        node = CompiledFunction_call(
                   Registered[CHOOSE i \in Accepting :
                                 \A j \in Accepting : i <= j],
                   source.args, source.kwargs)

\* C14: a call to an overloaded function is dispatched to the first
\* registration, in registration order (base first), whose parameter
\* contract accepts the arguments; when none accepts them the error raised
\* is the original one, raised by the first registration tried.
C14_FirstOrOriginalError ==
    pc = "dispatched" =>
        /\ DispatchedToFirst
        /\ Accepting = {} => node = ContractError(Registered[1])

\* C14 as amended: when no registration accepts the arguments the error
\* raised is the one of the last registration tried.
C14_FirstOrLastError ==
    pc = "dispatched" =>
        /\ DispatchedToFirst
        /\ Accepting = {} => node = ContractError(Registered[Len(Registered)])

\* three registrations, none accepts the call, and the first and the last
\* raise different errors
C14_Witness ==
    /\ pc = "dispatched"
    /\ Len(Registered) = 3
    /\ Accepting = {}
    /\ IsError(node)
    /\ ContractError(Registered[1]) # ContractError(Registered[3])

----------------------------------------------------------------------------
(* compile() (compiler/compile.py) over a module of three functions that   *)
(* call one another, the pre-compiled max and the built-in len.  The       *)
(* environment is the dict of the functions compiled so far; the caller    *)
(* may pass its own dict to every call, and compile() writes into it.      *)

MaxCalls == 2       \* functions of the module that one function calls

\* pre_compiled.compiled(): a copy of the pre-compiled functions
compiled ==
    [x \in {"max"} |->
        CompiledFunction("max", ParameterList(<<>>, "x"),
                         FunctionNode("Max", <<StarredNode(TRUE)>>))]

\* inspect.isbuiltin(c_func) for a name that is not pre-compiled
BuiltinNames == {"len"}

\* the text order of the names, and the orders in which the set c.calls
\* is iterated
TextOrder == <<"f", "g", "h", "len", "max">>
CallOrders == {TextOrder, <<"max", "len", "h", "g", "f">>}

\* the source of a function that calls the functions of the set `callees`
FunctionSource(callees) ==
    IF callees = {} THEN <<AstPass>>
    ELSE LET names == SelectSeq(TextOrder, LAMBDA y : y \in callees)
         IN  [i \in 1..Len(names) |-> AstExpr(AstCall(names[i], <<>>))]

Modules ==
    [FunctionNames ->
        {FunctionSource(c) :
            c \in {c \in SUBSET FunctionNames : Cardinality(c) <= MaxCalls}
                  \cup {{"max"}, {"len"}}}]

\* dict.update
DictUpdate(f, g) ==
    [x \in DOMAIN f \cup DOMAIN g |-> IF x \in DOMAIN g THEN g[x] ELSE f[x]]

\* the state of one compile(): the environment, output.functions, the
\* counter of anonymous registers and the exception raised, if any
Compiling(environment, functions, n, error) ==
    [environment |-> environment, functions |-> functions, counter |-> n,
     error |-> error]

RECURSIVE compile(_, _, _, _, _)
RECURSIVE compile_calls(_, _, _, _, _)

\* output.functions.update(ref_output.functions), then the next call
compile_update(defs, calls, order, k, functions, ref) ==
    IF ref.error # "" THEN ref
    ELSE compile_calls(defs, calls, order, k + 1,
             Compiling(ref.environment,
                       DictUpdate(functions, ref.functions), ref.counter, ""))

\* for call in c.calls, from the k-th name of the iteration order on
compile_calls(defs, calls, order, k, r) ==
    IF k > Len(order) THEN r
    ELSE IF order[k] \notin calls
    THEN compile_calls(defs, calls, order, k + 1, r)
    ELSE IF order[k] \in DOMAIN r.environment
    THEN compile_calls(defs, calls, order, k + 1,
             [r EXCEPT !.functions =
                           Store(@, order[k], r.environment[order[k]])])
    ELSE IF order[k] \in BuiltinNames
    THEN [r EXCEPT !.error = "RuntimeError: Cannot compile builtin function"]
    ELSE compile_update(defs, calls, order, k, r.functions,
             compile(defs, order[k], r.environment, r.counter, order))

\* compile() once the body is compiled
compile_compiled(defs, func, environment, order, out) ==
    IF IsError(out.node)
    THEN Compiling(environment, <<>>, out.st.counter, out.node.msg)
    ELSE compile_calls(defs, out.st.frames[1].calls, order, 1,
             Compiling(
                 Store(environment, func,
                       CompiledFunction(func, ParameterList(<<>>, ""),
                                        out.node)),
                 [x \in {func} |->
                     CompiledFunction(func, ParameterList(<<>>, ""),
                                      out.node)],
                 out.st.counter, ""))

\* compile(func, environment, link=False) with a non-empty environment
compile(defs, func, environment, n, order) ==
    compile_compiled(defs, func, environment, order,
                     compile_FunctionDef(func, defs[func], n))

NoOutput == CompileOutput("", <<>>)

Sessions ==
    { [form |-> "module", defs |-> d, environment |-> e,
       output |-> NoOutput] :
      d \in Modules, e \in {<<>>, compiled} }

InitSession ==
    /\ pc = "session"
    /\ counter = 0
    /\ source \in Sessions
    /\ node = F_empty
    /\ flow = NoFlow
    /\ machine = Idle

\* `environment = environment or compiled()`: the caller's dict is used,
\* and written, when it is given and not empty
Shares(shared) == shared /\ DOMAIN source.environment # {}

\* the end of a compile(): r is its state when it returns or raises
Compile_end(func, shared, r) ==
    /\ source' = [source EXCEPT
                     !.environment = IF Shares(shared) THEN r.environment
                                     ELSE @,
                     !.output = IF r.error = ""
                                THEN CompileOutput(func, r.functions)
                                ELSE NoOutput]
    /\ pc' = IF r.error = "" THEN "output" ELSE "failed"
    /\ counter' = r.counter
    /\ node' = F_empty
    /\ UNCHANGED <<flow, machine>>

\* compile(func, environment, link=False), with the caller's dict
\* (shared) or without an environment
Compile ==
    /\ pc \in {"session", "output", "failed", "resolved"}
    /\ \E func \in FunctionNames, shared \in BOOLEAN, order \in CallOrders :
          Compile_end(func, shared,
              compile(source.defs, func,
                      IF Shares(shared) THEN source.environment ELSE compiled,
                      counter, order))

\* output.link() on the output of the last compile()
LinkOutput ==
    /\ pc = "output"
    /\ node' = CompileOutput_link(source.output)
    /\ pc' = "resolved"
    /\ UNCHANGED <<counter, source, flow, machine>>

NextSession == Compile \/ LinkOutput
SpecSession == InitSession /\ [][NextSession]_vars

RECURSIVE Closure(_, _)
\* the names reachable from the set S through the Call nodes of the
\* functions that the map fs holds
Closure(fs, S) ==
    LET T == S \cup UNION {CallNames(fs[x].node) : x \in S \cap DOMAIN fs}
    IN  IF T = S THEN S ELSE Closure(fs, T)

\* C15: after any sequence of compile(..., link=False) calls, with or
\* without a shared environment dict, the returned output maps the entry
\* function and every function reachable from it through Call nodes, and
\* link() on it never looks up a name that is missing from the map.
C15_OutputClosed ==
    /\ pc = "output" =>
          Closure(source.output.functions, {source.output.entry})
              \subseteq DOMAIN source.output.functions
    /\ pc = "resolved" => node # ErrorNode("KeyError")

----------------------------------------------------------------------------
(* Flow graph (node/flow.py).  An absent flow or expression (None) is      *)
(* None; a constructor whose part is a raised exception is that exception. *)

None == [kind |-> "None"]

ValueExpr(q) == [kind |-> "ValueExpr", value |-> q]
RefExpr(name) == [kind |-> "RefExpr", name |-> name]
FunctionExpr(name, args) ==
    IF HasError(args) THEN FirstError(args)
    ELSE [kind |-> "FunctionExpr", name |-> name, args |-> args]
GetExpr(block, index, offset) ==
    IF IsError(offset) THEN offset
    ELSE [kind |-> "GetExpr", block |-> block, index |-> index,
          offset |-> offset]
AssignStatement(name, value, mutable) ==
    IF IsError(value) THEN value
    ELSE [kind |-> "AssignStatement", name |-> name, value |-> value,
          mutable |-> mutable]
SetStatement(block, index, offset, value) ==
    IF HasError(<<offset, value>>) THEN FirstError(<<offset, value>>)
    ELSE [kind |-> "SetStatement", block |-> block, index |-> index,
          offset |-> offset, value |-> value]
ExecuteFlow(nodes, next) ==
    IF HasError(nodes) THEN FirstError(nodes)
    ELSE IF IsError(next) THEN next
    ELSE [kind |-> "ExecuteFlow", nodes |-> nodes, next |-> next]
Case(case, body) == [case |-> case, body |-> body]
CaseError(cases) ==
    \E i \in 1..Len(cases) : IsError(cases[i].case) \/ IsError(cases[i].body)
FirstCaseError(cases) ==
    LET i == CHOOSE k \in 1..Len(cases) :
                 /\ IsError(cases[k].case) \/ IsError(cases[k].body)
                 /\ \A j \in 1..(k - 1) :
                       ~IsError(cases[j].case) /\ ~IsError(cases[j].body)
    IN  IF IsError(cases[i].case) THEN cases[i].case ELSE cases[i].body
SwitchFlow(result, condition, cases, default, next) ==
    IF IsError(condition) THEN condition
    ELSE IF CaseError(cases) THEN FirstCaseError(cases)
    ELSE IF HasError(<<default, next>>) THEN FirstError(<<default, next>>)
    ELSE [kind |-> "SwitchFlow", result |-> result, condition |-> condition,
          cases |-> cases, default |-> default, next |-> next]
LoopFlow(condition, body, next) ==
    IF HasError(<<condition, body, next>>)
    THEN FirstError(<<condition, body, next>>)
    ELSE [kind |-> "LoopFlow", condition |-> condition, body |-> body,
          next |-> next]

IsStatement(n) == n.kind \in {"AssignStatement", "SetStatement"}

RECURSIVE Flow_attach(_, _)
Flow_attach(self, other) ==
    CASE IsError(self) -> self
      [] IsError(other) -> other
      [] self.kind = "ExecuteFlow" ->
           IF self.next # None
           THEN ExecuteFlow(self.nodes, Flow_attach(self.next, other))
           ELSE IF other.kind = "ExecuteFlow"
           THEN ExecuteFlow(self.nodes \o other.nodes, other.next)
           ELSE ExecuteFlow(self.nodes, other)
      [] self.kind = "SwitchFlow" ->
           SwitchFlow(self.result, self.condition, self.cases, self.default,
                      IF self.next # None THEN Flow_attach(self.next, other)
                      ELSE other)
      [] self.kind = "LoopFlow" ->
           LoopFlow(self.condition, self.body,
                    IF self.next # None THEN Flow_attach(self.next, other)
                    ELSE other)

RECURSIVE Flow_set_result(_, _)
Flow_set_result(self, result) ==
    CASE IsError(self) -> self
      [] self.kind = "ExecuteFlow" ->
           IF self.next # None
           THEN ExecuteFlow(self.nodes, Flow_set_result(self.next, result))
           ELSE IF self.nodes = <<>> THEN ErrorNode("IndexError")
           ELSE IF IsStatement(self.nodes[Len(self.nodes)])
           THEN ExecuteFlow(
                    Append(self.nodes,
                           AssignStatement(result, ValueExpr(Num(0)), TRUE)),
                    None)
           ELSE ExecuteFlow(
                    Append(SubSeq(self.nodes, 1, Len(self.nodes) - 1),
                           AssignStatement(result,
                               self.nodes[Len(self.nodes)], TRUE)),
                    None)
      [] self.kind = "SwitchFlow" ->
           IF self.next # None
           THEN SwitchFlow(self.result, self.condition, self.cases,
                           self.default, Flow_set_result(self.next, result))
           ELSE Flow_attach(self,
                    ExecuteFlow(<<AssignStatement(result,
                                      RefExpr(self.result), TRUE)>>, None))
      [] self.kind = "LoopFlow" -> self

\* the flow f, built without a continuation, with the continuation next
Flow_attach_next(f, next) ==
    CASE IsError(f) -> f
      [] IsError(next) -> next
      [] OTHER -> [f EXCEPT !.next = next]

Occurrences(names, name) == Cardinality({i \in 1..Len(names) : names[i] = name})

----------------------------------------------------------------------------
(* Flow lowering (node/transform.py).  A Transformer holds the flow built  *)
(* so far; every rule returns the expression (None when the node yields    *)
(* no value, the exception when one is raised), the flow and the counter.  *)

TOut(e, f, c) == [expr |-> e, flow |-> f, counter |-> c]
Raise(msg, r) == TOut(ErrorNode(msg), r.flow, r.counter)

\* Transformer.append
Transformer_append(f, blocks) ==
    IF IsError(blocks) THEN blocks
    ELSE IF blocks.kind \in {"ExecuteFlow", "SwitchFlow", "LoopFlow"}
    THEN Flow_attach(f, blocks)
    ELSE Flow_attach(f, ExecuteFlow(<<blocks>>, None))

\* Transformer.lift of the value r.expr
Transformer_lift(r) ==
    TOut(RefExpr(anonymous(r.counter + 1)),
         Transformer_append(r.flow,
             AssignStatement(anonymous(r.counter + 1), r.expr, TRUE)),
         r.counter + 1)

RECURSIVE Transformer_transform(_, _, _)
RECURSIVE transform_Execute_loop(_, _, _)
RECURSIVE transform_Function_loop(_, _, _, _)
RECURSIVE transform(_, _)

\* r: the state after the value was transformed
transform_AssignNode_end(n, r) ==
    IF IsError(r.expr) THEN r
    ELSE IF r.expr = None THEN Raise("TypeError: returns None", r)
    ELSE TOut(None,
              Transformer_append(r.flow,
                  AssignStatement(n.name, r.expr, TRUE)),
              r.counter)

transform_GetNode_end(n, r) ==
    IF IsError(r.expr) THEN r
    ELSE IF r.expr = None THEN Raise("TypeError: returns None", r)
    ELSE TOut(GetExpr(n.block, n.index, Transformer_lift(r).expr),
              Transformer_lift(r).flow, r.counter + 1)

\* v: the value, o: the state after the offset was lifted
transform_SetNode_lift(n, v, o) ==
    TOut(SetStatement(n.block, n.index, o.expr,
                      Transformer_lift(TOut(v, o.flow, o.counter)).expr),
         Transformer_lift(TOut(v, o.flow, o.counter)).flow, o.counter + 1)

\* v: the value, r: the state after the offset was transformed
transform_SetNode_end(n, v, r) ==
    IF IsError(r.expr) THEN r
    ELSE IF r.expr = None THEN Raise("TypeError: returns None", r)
    ELSE transform_SetNode_lift(n, v, Transformer_lift(r))

\* r: the state after the value was transformed
transform_SetNode_offset(n, r) ==
    IF IsError(r.expr) THEN r
    ELSE IF r.expr = None THEN Raise("TypeError: returns None", r)
    ELSE transform_SetNode_end(n, r.expr,
             Transformer_transform(n.offset, r.flow, r.counter))

\* the for loop of transform_ExecuteNode before node i; r.expr is `result`
transform_Execute_loop(nodes, i, r) ==
    IF IsError(r.expr) \/ i > Len(nodes) THEN r
    ELSE transform_Execute_loop(nodes, i + 1,
             Transformer_transform(nodes[i],
                 IF r.expr # None THEN Transformer_append(r.flow, r.expr)
                 ELSE r.flow,
                 r.counter))

\* r: the state after argument i was transformed
transform_Function_arg(n, i, args, r) ==
    IF IsError(r.expr) THEN r
    ELSE IF r.expr = None THEN Raise("TypeError: returns None", r)
    ELSE transform_Function_loop(n, i + 1,
             Append(args, Transformer_lift(r).expr), Transformer_lift(r))

\* the for loop of transform_FunctionNode before argument i
transform_Function_loop(n, i, args, r) ==
    IF i > Len(n.args) THEN TOut(FunctionExpr(n.name, args), r.flow, r.counter)
    ELSE transform_Function_arg(n, i, args,
             Transformer_transform(n.args[i], r.flow, r.counter))

\* cond: the condition, f: the flow so far, result: the register,
\* then / orelse: the lowered branches
transform_IfNode_end(cond, f, result, then, orelse) ==
    IF IsError(orelse.expr) THEN orelse
    ELSE TOut(RefExpr(result),
              Transformer_append(f,
                  SwitchFlow(result, cond,
                      <<Case(ValueExpr(Num(0)), orelse.flow)>>,
                      then.flow, None)),
              orelse.counter)

transform_IfNode_orelse(n, cond, f, result, then) ==
    IF IsError(then.expr) THEN then
    ELSE transform_IfNode_end(cond, f, result, then,
                              transform(n.orelse, then.counter))

\* r: the state after the condition was transformed
transform_IfNode_then(n, r) ==
    IF IsError(r.expr) THEN r
    ELSE IF r.expr = None THEN Raise("TypeError: returns None", r)
    ELSE transform_IfNode_orelse(n, r.expr, r.flow,
             anonymous(r.counter + 1), transform(n.then, r.counter + 1))

\* cond: the register, f: the flow so far, condition / body: lowered
transform_WhileNode_end(cond, f, condition, body) ==
    IF IsError(body.expr) THEN body
    ELSE TOut(None,
              Transformer_append(
                  Transformer_append(f, condition.flow),
                  LoopFlow(RefExpr(cond),
                           Flow_attach(body.flow, condition.flow), None)),
              body.counter)

transform_WhileNode_body(n, cond, f, condition) ==
    IF IsError(condition.expr) THEN condition
    ELSE transform_WhileNode_end(cond, f, condition,
                                 transform(n.body, condition.counter))

transform_WhileNode(n, f, c) ==
    IF IsError(F_Assign(anonymous(c + 1), n.condition))
    THEN TOut(F_Assign(anonymous(c + 1), n.condition), f, c + 1)
    ELSE transform_WhileNode_body(n, anonymous(c + 1), f,
             transform(F_Assign(anonymous(c + 1), n.condition), c + 1))

\* Transformer.transform on the node n, the flow so far f, the counter c
Transformer_transform(n, f, c) ==
    CASE n.kind = "Value" -> TOut(ValueExpr(n.num), f, c)
      [] n.kind = "Ref" -> TOut(RefExpr(n.name), f, c)
      [] n.kind = "Assign" ->
           transform_AssignNode_end(n, Transformer_transform(n.value, f, c))
      [] n.kind = "Get" ->
           transform_GetNode_end(n, Transformer_transform(n.offset, f, c))
      [] n.kind = "Set" ->
           transform_SetNode_offset(n, Transformer_transform(n.value, f, c))
      [] n.kind = "Execute" ->
           transform_Execute_loop(n.nodes, 1, TOut(None, f, c))
      [] n.kind = "Function" ->
           transform_Function_loop(n, 1, <<>>, TOut(None, f, c))
      [] n.kind = "If" ->
           transform_IfNode_then(n, Transformer_transform(n.condition, f, c))
      [] n.kind = "While" -> transform_WhileNode(n, f, c)
      [] OTHER -> TOut(ErrorNode("NotImplementedError"), f, c)

\* Transformer.__init__ after the root was transformed
Transformer_init(r) ==
    IF IsError(r.expr) THEN r
    ELSE IF r.expr # None
    THEN TOut(None, Transformer_append(r.flow, r.expr), r.counter)
    ELSE r

\* transform(node) with the counter at c: the flow is in .flow, the
\* exception, if one is raised, in .expr
transform(n, c) ==
    Transformer_init(
        Transformer_transform(ExecuteNode(<<n>>), ExecuteFlow(<<>>, None), c))

----------------------------------------------------------------------------
(* The runtime that consumes the flow graph: an Execute block runs its     *)
(* nodes in order and then its continuation; a Switch evaluates its        *)
(* condition, runs the first case whose label equals it (else the          *)
(* default), writes the arm's value into its result register and goes on   *)
(* with its continuation; a Loop runs its body while its condition is not  *)
(* zero.                                                                   *)

MaxLoop == 2        \* iterations of a Loop that a run follows

RECURSIVE RunExpr(_, _)
RECURSIVE RunArgs(_, _, _, _)
RECURSIVE RunNodes(_, _, _)
RECURSIVE RunFlow(_, _)
RECURSIVE RunLoop(_, _, _)

\* the arguments es[i..], left to right; vals are the values so far
RunArgs(es, i, vals, m) ==
    IF i > Len(es) THEN [m |-> m, vals |-> vals]
    ELSE LET m1 == RunExpr(es[i], m)
         IN  RunArgs(es, i + 1, Append(vals, m1.val), m1)

RunExpr(e, m) ==
    CASE e.kind = "ValueExpr" -> [m EXCEPT !.val = e.value]
      [] e.kind = "RefExpr" -> [m EXCEPT !.val = Lookup(m.regs, e.name)]
      [] e.kind = "FunctionExpr" ->
           LET r == RunArgs(e.args, 1, <<>>, m)
           IN  [r.m EXCEPT !.val = Builtin(e.name, r.vals),
                           !.trace = Append(@, Event("call", e.name, r.vals))]
      [] e.kind = "GetExpr" ->
           LET m1 == RunExpr(e.offset, m)
           IN  [m1 EXCEPT !.val = Lookup(m1.mem,
                                         <<e.block, e.index, m1.val>>),
                          !.trace = Append(@, Event("get", "mem",
                              <<Num(e.block), Num(e.index), m1.val>>))]
      [] e.kind = "AssignStatement" ->
           LET m1 == RunExpr(e.value, m)
           IN  [m1 EXCEPT !.regs = Store(m1.regs, e.name, m1.val),
                          !.trace = Append(@, Event("assign", e.name,
                                                    <<m1.val>>))]
      [] e.kind = "SetStatement" ->
           LET m1 == RunExpr(e.offset, m)
               m2 == RunExpr(e.value, m1)
           IN  [m2 EXCEPT !.mem = Store(m2.mem,
                                        <<e.block, e.index, m1.val>>, m2.val),
                          !.trace = Append(@, Event("set", "mem",
                              <<Num(e.block), Num(e.index), m1.val,
                                m2.val>>))]

RunNodes(nodes, i, m) ==
    IF i > Len(nodes) THEN m ELSE RunNodes(nodes, i + 1, RunExpr(nodes[i], m))

\* the arm a Switch with these cases selects for the value v
SelectArm(cases, default, v) ==
    IF \E i \in 1..Len(cases) : cases[i].case = ValueExpr(v)
    THEN cases[CHOOSE i \in 1..Len(cases) :
                   /\ cases[i].case = ValueExpr(v)
                   /\ \A j \in 1..(i - 1) : cases[j].case # ValueExpr(v)].body
    ELSE default

\* m: the machine after the selected arm ran
RunSwitch_end(f, m) ==
    RunFlow(f.next, [m EXCEPT !.regs = Store(m.regs, f.result, m.val)])

\* m: the machine after the condition was evaluated
RunSwitch(f, m) ==
    RunSwitch_end(f, RunFlow(SelectArm(f.cases, f.default, m.val), m))

\* m: the machine after the condition was evaluated, k: iterations left
RunLoop_body(f, m, k) ==
    IF QZero(m.val) \/ k = 0 THEN RunFlow(f.next, m)
    ELSE RunLoop(f, RunFlow(f.body, m), k - 1)

RunLoop(f, m, k) == RunLoop_body(f, RunExpr(f.condition, m), k)

RunFlow(f, m) ==
    CASE f = None -> m
      [] f.kind = "ExecuteFlow" -> RunFlow(f.next, RunNodes(f.nodes, 1, m))
      [] f.kind = "SwitchFlow" -> RunSwitch(f, RunExpr(f.condition, m))
      [] f.kind = "LoopFlow" -> RunLoop(f, m, MaxLoop)

----------------------------------------------------------------------------
(* Lowering: transform(node) on one tree, then one run of the flow.        *)

\* the trees, by nesting depth
Atoms == {ValueNode(Num(1)), RefNode("x")}
Branches == {ValueNode(Num(2)), FunctionNode("Draw", <<RefNode("x")>>),
             AssignNode("x", ValueNode(Num(1)))}
Trees1 ==
    Atoms
    \cup {FunctionNode("Draw", <<a>>) : a \in Atoms}
    \cup {FunctionNode("Add", <<a, b>>) : a, b \in Atoms}
    \cup {AssignNode("x", a) : a \in Atoms}
Trees2 ==
    {FunctionNode("Play", <<a, b>>) : a, b \in Trees1}
    \cup {IfNode(a, b, c) : a \in Trees1, b, c \in Branches}
    \cup {ExecuteNode(<<a, b>>) : a, b \in Trees1}
    \cup {AssignNode("y", a) : a \in Trees1}
Trees3 ==
    {FunctionNode("Spawn", <<a, RefNode("y")>>) : a \in Trees2}
    \cup {ExecuteNode(<<a, b>>) : a \in Trees2, b \in Branches}
    \cup {IfNode(a, b, c) : a \in Atoms, b \in Trees2, c \in Atoms}
Trees == Trees1 \cup Trees2 \cup Trees3

InitLower ==
    /\ pc = "tree"
    /\ counter \in 0..MaxCounter
    /\ source \in {[form |-> "tree", counter |-> counter,
                    regs |-> [r \in {"x"} |-> v], oracle |-> <<>>] :
                   v \in Values}
    /\ node \in Trees
    /\ flow = NoFlow
    /\ machine = Idle

\* transform(node); an exception leaves the exception in place of the flow
Lower ==
    /\ pc = "tree"
    /\ LET r == transform(node, counter)
       IN  /\ flow' = IF IsError(r.expr) THEN r.expr ELSE r.flow
           /\ counter' = r.counter
    /\ pc' = "lowered"
    /\ UNCHANGED <<source, node, machine>>

\* one run of the flow on the source's registers
RunLowered ==
    /\ pc = "lowered"
    /\ ~IsError(flow)
    /\ machine' = RunFlow(flow, Machine(source.regs, source.oracle))
    /\ pc' = "flow-ran"
    /\ UNCHANGED <<source, counter, node, flow>>

NextLower == Lower \/ RunLowered
SpecLower == InitLower /\ [][NextLower]_vars

----------------------------------------------------------------------------
(* Properties of lowering.                                                 *)

RECURSIVE ExprTokens(_)
RECURSIVE NodesTokens(_, _)
RECURSIVE CasesTokens(_, _)
RECURSIVE FlowTokens(_)

\* the calls and assignments of a flow in the order it lists them
ExprTokens(e) ==
    CASE e.kind = "FunctionExpr" ->
           Append(NodesTokens(e.args, 1), Event("call", e.name, e.args))
      [] e.kind = "GetExpr" -> ExprTokens(e.offset)
      [] e.kind = "AssignStatement" ->
           Append(ExprTokens(e.value), Event("assign", e.name, <<>>))
      [] e.kind = "SetStatement" ->
           ExprTokens(e.offset) \o ExprTokens(e.value)
      [] OTHER -> <<>>
NodesTokens(es, i) ==
    IF i > Len(es) THEN <<>>
    ELSE ExprTokens(es[i]) \o NodesTokens(es, i + 1)
CasesTokens(cases, i) ==
    IF i > Len(cases) THEN <<>>
    ELSE FlowTokens(cases[i].body) \o CasesTokens(cases, i + 1)
FlowTokens(f) ==
    CASE f = None -> <<>>
      [] f.kind = "ExecuteFlow" ->
           NodesTokens(f.nodes, 1) \o FlowTokens(f.next)
      [] f.kind = "SwitchFlow" ->
           ExprTokens(f.condition) \o CasesTokens(f.cases, 1)
               \o FlowTokens(f.default) \o FlowTokens(f.next)
      [] f.kind = "LoopFlow" ->
           ExprTokens(f.condition) \o FlowTokens(f.body) \o FlowTokens(f.next)

RECURSIVE TreeCalls(_)
RECURSIVE TreeCallsSeq(_, _)
\* the names of the FunctionCall nodes of a tree, one per occurrence
TreeCalls(n) ==
    CASE n.kind = "Function" -> Append(TreeCallsSeq(n.args, 1), n.name)
      [] n.kind = "Assign" -> TreeCalls(n.value)
      [] n.kind = "Execute" -> TreeCallsSeq(n.nodes, 1)
      [] n.kind = "If" ->
           TreeCalls(n.condition) \o TreeCalls(n.then) \o TreeCalls(n.orelse)
      [] OTHER -> <<>>
TreeCallsSeq(ns, i) ==
    IF i > Len(ns) THEN <<>> ELSE TreeCalls(ns[i]) \o TreeCallsSeq(ns, i + 1)

FlowCalls(f) ==
    LET t == FlowTokens(f)
        calls == SelectSeq(t, LAMBDA e : e.ev = "call")
    IN  [i \in 1..Len(calls) |-> calls[i].name]

\* the registers minted since lowering started
Fresh == {anonymous(k) : k \in (source.counter + 1)..counter}

\* every argument of every call is a fresh register of its own, assigned
\* once, ahead of the call
ArgumentsBound(t) ==
    \A p \in 1..Len(t) : t[p].ev = "call" =>
        \A i \in 1..Len(t[p].args) :
            /\ t[p].args[i].kind = "RefExpr"
            /\ t[p].args[i].name \in Fresh
            /\ Cardinality({q \in 1..Len(t) :
                   t[q].ev = "assign" /\ t[q].name = t[p].args[i].name}) = 1
            /\ \E q \in 1..(p - 1) :
                   t[q].ev = "assign" /\ t[q].name = t[p].args[i].name
            /\ \A q \in 1..Len(t) : \A j \in 1..Len(t[q].args) :
                   (t[q].ev = "call" /\ t[q].args[j] = t[p].args[i])
                       => (q = p /\ j = i)

\* what a run shows apart from the writes of the minted registers
Visible(trace) ==
    SelectSeq(trace, LAMBDA e : ~(e.ev = "assign" /\ e.name \in Fresh))

TreeRun == Eval(node, Machine(source.regs, source.oracle))
TreeTrace == TreeRun.trace

\* C4: lowering a tree of Value, Ref, Assign, FunctionCall, Execute and If
\* nodes gives a flow that holds each call of the tree once, whose call
\* arguments are fresh registers bound ahead of the call, and whose run
\* makes the calls and the tree's assignments in the order a run of the
\* tree makes them.
C4_LoweringOrder ==
    /\ pc \in {"lowered", "flow-ran"} =>
          /\ ~IsError(flow)
          /\ \A name \in {"Draw", "Add", "Play", "Spawn"} :
                 Occurrences(FlowCalls(flow), name)
                     = Occurrences(TreeCalls(node), name)
          /\ ArgumentsBound(FlowTokens(flow))
    /\ pc = "flow-ran" => Visible(machine.trace) = TreeTrace

\* an Assign in a value position: the value of an Assign, or an argument
\* of a built-in call
ValueAssign(n) ==
    \/ n.kind = "Assign" /\ n.value.kind = "Assign"
    \/ n.kind = "Function" /\ \E i \in 1..Len(n.args) : n.args[i].kind = "Assign"

\* C16: lowering accepts an Assign in a value position: Assign(r,
\* Assign(x, v)) and a built-in call with an Assign argument are lowered,
\* the run of Assign(r, Assign(x, v)) leaves the value of v in x and in r,
\* and every call-free tree that the front end builds for a body with a
\* return is lowered.
C16_AssignIsValue ==
    /\ (pc = "lowered" /\ ValueAssign(node)) => ~IsError(flow)
    /\ (pc = "flow-ran" /\ node.kind = "Assign" /\ node.value.kind = "Assign")
          => /\ Lookup(machine.regs, node.value.name) = TreeRun.val
             /\ Lookup(machine.regs, node.name) = TreeRun.val
    /\ (pc = "compiled" /\ source.form = "return" /\ ~IsError(node)
            /\ CallNames(node) = {})
          => ~IsError(transform(node, counter).expr)

----------------------------------------------------------------------------
(* The optimizer passes (optimizer/*.py).  Optimizer.optimize dispatches   *)
(* on the node's class and falls back on node.apply, which rebuilds the    *)
(* node from its optimized parts; AssignStatement.apply rebuilds the       *)
(* assignment without its mutable flag.  `x and f(x)` is f with f(None)    *)
(* = None.                                                                 *)

IsValue(e) == e.kind = "ValueExpr"
ValueExpr_true(e) == IsValue(e) /\ ~QZero(e.value)
ValueExpr_false(e) == IsValue(e) /\ QZero(e.value)

\* node.apply(f) for f the identity on expressions
Touch(n) ==
    IF n.kind = "AssignStatement" THEN AssignStatement(n.name, n.value, TRUE)
    ELSE n
TouchAll(nodes) == [i \in 1..Len(nodes) |-> Touch(nodes[i])]

(* ConstantFold (optimizer/constant.py).  fold_Exp and fold_Log are not    *)
(* modelled: no graph of the model calls Exp or Log.                       *)

RECURSIVE fold_quad_constant(_, _, _)
\* the sum / product of the literals among nodes[i..], from the unit
fold_quad_constant(nodes, i, fold) ==
    IF i > Len(nodes) THEN (IF fold = "Add" THEN Num(0) ELSE Num(1))
    ELSE IF ~IsValue(nodes[i]) THEN fold_quad_constant(nodes, i + 1, fold)
    ELSE IF fold = "Add"
    THEN QAdd(nodes[i].value, fold_quad_constant(nodes, i + 1, fold))
    ELSE QMul(nodes[i].value, fold_quad_constant(nodes, i + 1, fold))

\* constant: the folded literal, result: the operands that are no literals
fold_quad_result(constant, result, fold) ==
    IF ~QZero(constant) THEN <<ValueExpr(constant)>> \o result
    ELSE IF result # <<>> THEN result
    ELSE <<IF fold = "Add" THEN ValueExpr(Num(0)) ELSE ValueExpr(Num(1))>>

\* ConstantFold._fold_quad
fold_quad(nodes, fold) ==
    fold_quad_result(fold_quad_constant(nodes, 1, fold),
                     SelectSeq(nodes, LAMBDA n : ~IsValue(n)), fold)

\* fold_Add and fold_Multiply on the folded operands
fold_commutative(name, result) ==
    IF Len(result) = 1 THEN result[1] ELSE FunctionExpr(name, result)

\* fold_Subtract and fold_Divide: head and the folded tail
fold_head(name, head, tail) ==
    IF IsValue(head) /\ IsValue(tail[1])
    THEN IF Len(tail) = 1
         THEN ValueExpr(IF name = "Sub" THEN QSub(head.value, tail[1].value)
                        ELSE QDiv(head.value, tail[1].value))
         ELSE FunctionExpr(name,
                  <<ValueExpr(IF name = "Sub"
                              THEN QSub(head.value, tail[1].value)
                              ELSE QDiv(head.value, tail[1].value))>>
                  \o Tail(tail))
    ELSE FunctionExpr(name, <<head>> \o tail)

QFloor(a) == Num(a[1] \div a[2])
QNeg(a) == Q(-a[1], a[2])
\* round(): to the nearest integer, a half to the even one
QRound(a) ==
    LET f == a[1] \div a[2]
        r == QSub(a, Num(f))
    IN  IF QLess(r, Q(1, 2)) THEN Num(f)
        ELSE IF QLess(Q(1, 2), r) THEN Num(f + 1)
        ELSE IF f % 2 = 0 THEN Num(f) ELSE Num(f + 1)

\* the literal that a fold of literals yields
fold_literal(name, a) ==
    CASE name = "Min" -> IF QLess(a[2], a[1]) THEN a[2] ELSE a[1]
      [] name = "Max" -> IF QLess(a[1], a[2]) THEN a[2] ELSE a[1]
      [] name = "Less" -> QBool(QLess(a[1], a[2]))
      [] name = "LessOr" -> QBool(~QLess(a[2], a[1]))
      [] name = "Greater" -> QBool(QLess(a[2], a[1]))
      [] name = "GreaterOr" -> QBool(~QLess(a[1], a[2]))
      [] name = "Equal" -> QBool(a[1] = a[2])
      [] name = "NotEqual" -> QBool(a[1] # a[2])
      [] name = "Not" -> QBool(QZero(a[1]))
      [] name = "Negate" -> QNeg(a[1])
      [] name = "Abs" -> IF a[1][1] < 0 THEN QNeg(a[1]) ELSE a[1]
      [] name = "Sign" -> IF a[1][1] > 0 THEN Num(1)
                          ELSE IF a[1][1] < 0 THEN Num(-1) ELSE Num(0)
      [] name = "Floor" -> QFloor(a[1])
      [] name = "Ceil" -> QNeg(QFloor(QNeg(a[1])))
      [] name = "Round" -> QRound(a[1])
      [] name = "Trunc" -> IF a[1][1] < 0 THEN QNeg(QFloor(QNeg(a[1])))
                           ELSE QFloor(a[1])

\* the fold_<name> methods that take a fixed number of operands
fold_fixed(name, arity, args) ==
    IF Len(args) # arity THEN ErrorNode("TypeError")
    ELSE IF \A i \in 1..arity : IsValue(args[i])
    THEN ValueExpr(fold_literal(name, [i \in 1..arity |-> args[i].value]))
    ELSE IF name = "Negate"
    THEN FunctionExpr("Subtract", <<ValueExpr(Num(0)), args[1]>>)
    ELSE FunctionExpr(name, args)

fold_If(args) ==
    IF Len(args) # 3 THEN ErrorNode("TypeError")
    ELSE IF ValueExpr_true(args[1]) THEN args[2]
    ELSE IF ValueExpr_false(args[1]) THEN args[3]
    ELSE FunctionExpr("If", args)

\* fold_And (unit = "true") and fold_Or (unit = "false")
fold_logic(name, args) ==
    LET skip(e) == IF name = "And" THEN ValueExpr_true(e)
                   ELSE ValueExpr_false(e)
        stop(e) == IF name = "And" THEN ValueExpr_false(e)
                   ELSE ValueExpr_true(e)
        nodes == SelectSeq(args, LAMBDA e : ~skip(e))
    IN  IF \E i \in 1..Len(args) : stop(args[i])
        THEN FunctionExpr(name, args)
        ELSE IF nodes = <<>>
        THEN (IF name = "And" THEN ValueExpr(Num(1)) ELSE ValueExpr(Num(0)))
        ELSE FunctionExpr(name, nodes)

\* getattr(self, f"fold_{block.name}")(*args)
ConstantFold_fold(name, args) ==
    CASE HasError(args) -> FirstError(args)
      [] name = "Add" -> fold_commutative("Add", fold_quad(args, "Add"))
      [] name = "Multiply" ->
           fold_commutative("Multiply", fold_quad(args, "Multiply"))
      [] name = "Subtract" ->
           IF args = <<>> THEN ErrorNode("IndexError")
           ELSE IF Len(args) = 1 THEN args[1]
           ELSE fold_head("Sub", args[1], fold_quad(Tail(args), "Add"))
      [] name = "Divide" ->
           IF args = <<>> THEN ErrorNode("IndexError")
           ELSE IF Len(args) = 1 THEN args[1]
           ELSE fold_head("Divide", args[1],
                          fold_quad(Tail(args), "Multiply"))
      [] name \in {"Min", "Max", "Less", "LessOr", "Greater", "GreaterOr",
                   "Equal", "NotEqual"} -> fold_fixed(name, 2, args)
      [] name \in {"Not", "Negate", "Abs", "Sign", "Floor", "Ceil", "Round",
                   "Trunc"} -> fold_fixed(name, 1, args)
      [] name = "If" -> fold_If(args)
      [] name \in {"And", "Or"} -> fold_logic(name, args)
      [] OTHER -> FunctionExpr(name, args)

RECURSIVE ConstantFold_optimize(_)
ConstantFold_optimize(n) ==
    CASE n = None -> None
      [] IsError(n) -> n
      [] n.kind = "FunctionExpr" ->
           ConstantFold_fold(n.name,
               [i \in 1..Len(n.args) |-> ConstantFold_optimize(n.args[i])])
      [] n.kind = "GetExpr" ->
           GetExpr(n.block, n.index, ConstantFold_optimize(n.offset))
      [] n.kind = "AssignStatement" ->
           AssignStatement(n.name, ConstantFold_optimize(n.value), TRUE)
      [] n.kind = "SetStatement" ->
           SetStatement(n.block, n.index, ConstantFold_optimize(n.offset),
                        ConstantFold_optimize(n.value))
      [] n.kind = "ExecuteFlow" ->
           ExecuteFlow([i \in 1..Len(n.nodes) |->
                            ConstantFold_optimize(n.nodes[i])],
                       ConstantFold_optimize(n.next))
      [] n.kind = "SwitchFlow" ->
           SwitchFlow(n.result, ConstantFold_optimize(n.condition),
               [i \in 1..Len(n.cases) |->
                    Case(ConstantFold_optimize(n.cases[i].case),
                         ConstantFold_optimize(n.cases[i].body))],
               ConstantFold_optimize(n.default),
               ConstantFold_optimize(n.next))
      [] n.kind = "LoopFlow" ->
           LoopFlow(ConstantFold_optimize(n.condition),
                    ConstantFold_optimize(n.body),
                    ConstantFold_optimize(n.next))
      [] OTHER -> n

(* UnusedVariableElimination, UselessValueElimination                     *)
(* (optimizer/elimination.py).                                             *)

RECURSIVE Refs(_)
\* UnusedVariableElimination.detect_refs: the registers the graph reads
Refs(n) ==
    CASE n.kind = "RefExpr" -> {n.name}
      [] n.kind = "FunctionExpr" ->
           UNION {Refs(n.args[i]) : i \in 1..Len(n.args)}
      [] n.kind = "GetExpr" -> Refs(n.offset)
      [] n.kind = "AssignStatement" -> Refs(n.value)
      [] n.kind = "SetStatement" -> Refs(n.offset) \cup Refs(n.value)
      [] n.kind = "ExecuteFlow" ->
           UNION {Refs(n.nodes[i]) : i \in 1..Len(n.nodes)} \cup Refs(n.next)
      [] n.kind = "SwitchFlow" ->
           Refs(n.condition) \cup Refs(n.default) \cup Refs(n.next)
               \cup UNION {Refs(n.cases[i].case) \cup Refs(n.cases[i].body) :
                           i \in 1..Len(n.cases)}
      [] n.kind = "LoopFlow" ->
           Refs(n.condition) \cup Refs(n.body) \cup Refs(n.next)
      [] OTHER -> {}

\* UnusedVariableElimination.optimize_ExecuteFlow's filter
KeepRead(nodes, refs) ==
    SelectSeq(nodes,
              LAMBDA b : ~(b.kind = "AssignStatement" /\ b.name \notin refs))

RECURSIVE UnusedVariableElimination_optimize(_, _)
UnusedVariableElimination_optimize(n, refs) ==
    CASE n = None -> None
      [] n.kind = "ExecuteFlow" ->
           ExecuteFlow(KeepRead(n.nodes, refs),
                       UnusedVariableElimination_optimize(n.next, refs))
      [] n.kind = "SwitchFlow" ->
           SwitchFlow(n.result, n.condition,
               [i \in 1..Len(n.cases) |->
                    Case(n.cases[i].case,
                         UnusedVariableElimination_optimize(n.cases[i].body,
                                                            refs))],
               UnusedVariableElimination_optimize(n.default, refs),
               UnusedVariableElimination_optimize(n.next, refs))
      [] n.kind = "LoopFlow" ->
           LoopFlow(n.condition,
                    UnusedVariableElimination_optimize(n.body, refs),
                    UnusedVariableElimination_optimize(n.next, refs))
      [] OTHER -> n

\* an elimination that takes every register of the graph as read
EveryRegisterRead(f) == f

\* UnusedVariableElimination(flow).optimize(flow)
UnusedVariableElimination(f) == UnusedVariableElimination_optimize(f, Refs(f))

\* UselessValueElimination.optimize_ExecuteFlow's filter
KeepUseful(nodes, last) ==
    LET keep == {i \in 1..Len(nodes) :
                    (last /\ i = Len(nodes))
                        \/ nodes[i].kind \notin {"ValueExpr", "RefExpr"}}
        RECURSIVE Pick(_)
        Pick(i) == IF i > Len(nodes) THEN <<>>
                   ELSE IF i \in keep THEN <<nodes[i]>> \o Pick(i + 1)
                   ELSE Pick(i + 1)
    IN  Pick(1)

RECURSIVE UselessValueElimination(_)
UselessValueElimination(n) ==
    CASE n = None -> None
      [] n.kind = "ExecuteFlow" ->
           ExecuteFlow(KeepUseful(n.nodes, n.next = None),
                       UselessValueElimination(n.next))
      [] n.kind = "SwitchFlow" ->
           SwitchFlow(n.result, n.condition,
               [i \in 1..Len(n.cases) |->
                    Case(n.cases[i].case,
                         UselessValueElimination(n.cases[i].body))],
               UselessValueElimination(n.default),
               UselessValueElimination(n.next))
      [] n.kind = "LoopFlow" ->
           LoopFlow(n.condition, UselessValueElimination(n.body),
                    UselessValueElimination(n.next))
      [] OTHER -> n

(* MergeExecute, RemoveEmptyExecute (optimizer/execute.py).                *)

RECURSIVE MergeExecute(_)
MergeExecute(n) ==
    CASE n = None -> None
      [] n.kind = "ExecuteFlow" ->
           IF n.next.kind = "ExecuteFlow"
           THEN ExecuteFlow(n.nodes \o n.next.nodes,
                            MergeExecute(n.next.next))
           ELSE ExecuteFlow(n.nodes, MergeExecute(n.next))
      [] n.kind = "SwitchFlow" ->
           SwitchFlow(n.result, n.condition,
               [i \in 1..Len(n.cases) |->
                    Case(n.cases[i].case, MergeExecute(n.cases[i].body))],
               MergeExecute(n.default), MergeExecute(n.next))
      [] n.kind = "LoopFlow" ->
           LoopFlow(n.condition, MergeExecute(n.body), MergeExecute(n.next))
      [] OTHER -> n

\* `flow.next and isinstance(flow.next, ExecuteFlow) and not flow.next.nodes`
EmptyNext(n) == n.next.kind = "ExecuteFlow" /\ n.next.nodes = <<>>

RECURSIVE RemoveEmptyExecute(_)
RemoveEmptyExecute(n) ==
    CASE n = None -> None
      [] n.kind = "ExecuteFlow" ->
           IF n.nodes = <<>> /\ n.next # None THEN RemoveEmptyExecute(n.next)
           ELSE IF EmptyNext(n)
           THEN ExecuteFlow(n.nodes, RemoveEmptyExecute(n.next.next))
           ELSE ExecuteFlow(n.nodes, RemoveEmptyExecute(n.next))
      [] n.kind = "SwitchFlow" ->
           IF EmptyNext(n)
           THEN SwitchFlow(n.result, n.condition,
                    [i \in 1..Len(n.cases) |->
                         Case(n.cases[i].case,
                              RemoveEmptyExecute(n.cases[i].body))],
                    RemoveEmptyExecute(n.default),
                    RemoveEmptyExecute(n.next.next))
           ELSE SwitchFlow(n.result, n.condition, n.cases, n.default,
                           RemoveEmptyExecute(n.next))
      [] n.kind = "LoopFlow" ->
           IF EmptyNext(n)
           THEN LoopFlow(n.condition, RemoveEmptyExecute(n.body),
                         RemoveEmptyExecute(n.next.next))
           ELSE LoopFlow(n.condition, n.body, RemoveEmptyExecute(n.next))
      [] OTHER -> n

(* SwitchElimination, BranchMerge, SwitchFold (optimizer/switch.py).       *)

\* the flow a replaced Switch leaves: result, then the optimized continuation
Replace(result, next) ==
    IF next = None THEN result ELSE Flow_attach(result, next)

\* SwitchElimination.optimize_SwitchFlow's choice for a literal condition:
\* the arm with the result set, None when the Switch stays
Eliminated(n) ==
    IF \E i \in 1..Len(n.cases) : n.cases[i].case = n.condition
    THEN Flow_set_result(
             n.cases[CHOOSE i \in 1..Len(n.cases) :
                        /\ n.cases[i].case = n.condition
                        /\ \A j \in 1..(i - 1) :
                               n.cases[j].case # n.condition].body,
             n.result)
    ELSE IF (\A i \in 1..Len(n.cases) : IsValue(n.cases[i].case))
             /\ n.default # None
    THEN Flow_set_result(n.default, n.result)
    ELSE None

RECURSIVE SwitchElimination(_)
SwitchElimination(n) ==
    CASE n = None -> None
      [] n.kind = "ExecuteFlow" ->
           ExecuteFlow(TouchAll(n.nodes), SwitchElimination(n.next))
      [] n.kind = "SwitchFlow" ->
           IF IsValue(n.condition) /\ Eliminated(n) # None
           THEN Replace(Eliminated(n), SwitchElimination(n.next))
           ELSE SwitchFlow(n.result, n.condition,
                    [i \in 1..Len(n.cases) |->
                         Case(n.cases[i].case,
                              SwitchElimination(n.cases[i].body))],
                    SwitchElimination(n.default), SwitchElimination(n.next))
      [] n.kind = "LoopFlow" ->
           LoopFlow(n.condition, SwitchElimination(n.body),
                    SwitchElimination(n.next))
      [] OTHER -> n

\* BranchMerge.optimize_SwitchFlow's choice: the one body all arms share,
\* None when the Switch stays
Merged(n) ==
    IF n.cases = <<>>
    THEN IF n.default = None THEN ErrorNode("ValueError") ELSE n.default
    ELSE IF (\A i \in 2..Len(n.cases) : n.cases[i].body = n.cases[1].body)
             /\ (n.default = None \/ n.default = n.cases[1].body)
    THEN Flow_set_result(n.cases[1].body, n.result)
    ELSE None

RECURSIVE BranchMerge(_)
BranchMerge(n) ==
    CASE n = None -> None
      [] n.kind = "ExecuteFlow" ->
           ExecuteFlow(TouchAll(n.nodes), BranchMerge(n.next))
      [] n.kind = "SwitchFlow" ->
           IF IsError(Merged(n)) THEN Merged(n)
           ELSE IF Merged(n) # None
           THEN Replace(Merged(n), BranchMerge(n.next))
           ELSE SwitchFlow(n.result, n.condition,
                    [i \in 1..Len(n.cases) |->
                         Case(n.cases[i].case, BranchMerge(n.cases[i].body))],
                    BranchMerge(n.default), BranchMerge(n.next))
      [] n.kind = "LoopFlow" ->
           LoopFlow(n.condition, BranchMerge(n.body), BranchMerge(n.next))
      [] OTHER -> n

RECURSIVE SwitchFold(_)
SwitchFold(n) ==
    CASE n = None -> None
      [] n.kind = "ExecuteFlow" ->
           ExecuteFlow(TouchAll(n.nodes), SwitchFold(n.next))
      [] n.kind = "SwitchFlow" ->
           SwitchFlow(n.result, n.condition,
               [i \in 1..Len(n.cases) |->
                    Case(n.cases[i].case, SwitchFold(n.cases[i].body))],
               SwitchFold(n.default), SwitchFold(n.next))
      [] n.kind = "LoopFlow" ->
           LoopFlow(n.condition, SwitchFold(n.body), SwitchFold(n.next))
      [] OTHER -> n

(* ConstantPropagation (optimizer/constant.py).  The context is the dict  *)
(* of the registers known to hold a literal; a pass with a context         *)
(* returns the node and the context it leaves.                             *)

POut(f, ctx) == [flow |-> f, ctx |-> ctx]
Remove(d, k) == [x \in DOMAIN d \ {k} |-> d[x]]
Items(d) == {<<k, d[k]>> : k \in DOMAIN d}

RECURSIVE ConstantPropagation_expr(_, _)
\* optimize on an expression or a statement: the context stays
ConstantPropagation_expr(e, constants) ==
    CASE e.kind = "RefExpr" ->
           IF e.name \in DOMAIN constants THEN ValueExpr(constants[e.name])
           ELSE e
      [] e.kind = "FunctionExpr" ->
           FunctionExpr(e.name,
               [i \in 1..Len(e.args) |->
                    ConstantPropagation_expr(e.args[i], constants)])
      [] e.kind = "GetExpr" ->
           GetExpr(e.block, e.index,
                   ConstantPropagation_expr(e.offset, constants))
      [] e.kind = "AssignStatement" ->
           AssignStatement(e.name,
                           ConstantPropagation_expr(e.value, constants), TRUE)
      [] e.kind = "SetStatement" ->
           SetStatement(e.block, e.index,
                        ConstantPropagation_expr(e.offset, constants),
                        ConstantPropagation_expr(e.value, constants))
      [] OTHER -> e

\* optimize_ExecuteFlow on the optimized node: what the context learns
ConstantPropagation_learn(b, constants) ==
    IF b.kind # "AssignStatement" THEN constants
    ELSE IF IsValue(b.value) THEN Store(constants, b.name, b.value.value)
    ELSE IF b.name \in DOMAIN constants THEN Remove(constants, b.name)
    ELSE constants

\* optimize_ExecuteFlow on the optimized node: the node, or the TypeError
ConstantPropagation_check(b, constants) ==
    IF b.kind = "AssignStatement" /\ ~IsValue(b.value)
           /\ b.name \in DOMAIN constants /\ ~b.mutable
    THEN ErrorNode("TypeError")
    ELSE b

RECURSIVE ConstantPropagation_nodes(_, _, _, _)
\* b: node i optimized
ConstantPropagation_node(nodes, i, blocks, constants, b) ==
    ConstantPropagation_nodes(nodes, i + 1,
        Append(blocks, ConstantPropagation_check(b, constants)),
        ConstantPropagation_learn(b, constants))
ConstantPropagation_nodes(nodes, i, blocks, constants) ==
    IF i > Len(nodes) THEN POut(blocks, constants)
    ELSE ConstantPropagation_node(nodes, i, blocks, constants,
             ConstantPropagation_expr(nodes[i], constants))

\* dict(intersection(set(c.constants.items()) for c in contexts))
Intersection(contexts) ==
    [k \in {x \in DOMAIN contexts[1] :
               \A i \in 1..Len(contexts) :
                   x \in DOMAIN contexts[i] /\ contexts[i][x] = contexts[1][x]}
        |-> contexts[1][k]]

\* the bodies of a Switch: its cases' and, if there is one, its default
Arms(n) ==
    [i \in 1..Len(n.cases) |-> n.cases[i].body]
        \o (IF n.default # None THEN <<n.default>> ELSE <<>>)

\* `bodies[-1] if flow.default else None`
DefaultArm(n, bodies) ==
    IF n.default # None THEN bodies[Len(bodies)].flow ELSE None

RECURSIVE ConstantPropagation(_, _)

\* q: the continuation optimized
ConstantPropagation_then(f, q) == POut(Flow_attach_next(f, q.flow), q.ctx)

\* bodies: the arms optimized, each from a copy of the context
ConstantPropagation_switch(n, constants, bodies) ==
    IF bodies = <<>> THEN POut(ErrorNode("TypeError"), constants)
    ELSE ConstantPropagation_then(
             SwitchFlow(n.result,
                 ConstantPropagation_expr(n.condition, constants),
                 [i \in 1..Len(n.cases) |->
                      Case(ConstantPropagation_expr(n.cases[i].case,
                                                    constants),
                           bodies[i].flow)],
                 DefaultArm(n, bodies), None),
             ConstantPropagation(n.next,
                 Intersection([i \in 1..Len(bodies) |-> bodies[i].ctx])))

\* r: the nodes optimized
ConstantPropagation_execute(n, r) ==
    ConstantPropagation_then(ExecuteFlow(r.flow, None),
                             ConstantPropagation(n.next, r.ctx))

\* b: the body optimized
ConstantPropagation_loop(n, constants, b) ==
    ConstantPropagation_then(
        LoopFlow(ConstantPropagation_expr(n.condition, constants), b.flow,
                 None),
        ConstantPropagation(n.next, b.ctx))

ConstantPropagation(n, constants) ==
    CASE n = None -> POut(None, constants)
      [] n.kind = "ExecuteFlow" ->
           ConstantPropagation_execute(n,
               ConstantPropagation_nodes(n.nodes, 1, <<>>, constants))
      [] n.kind = "SwitchFlow" ->
           ConstantPropagation_switch(n, constants,
               [i \in 1..Len(Arms(n)) |->
                    ConstantPropagation(Arms(n)[i], constants)])
      [] n.kind = "LoopFlow" ->
           ConstantPropagation_loop(n, constants,
               ConstantPropagation(n.body, constants))

(* SingleAssignTransform (optimizer/variable.py).  The context is the     *)
(* alias dict; the counter of anonymous registers goes along.  The phi     *)
(* names of a Switch are a Python set of strings, iterated in the order    *)
(* the process's string hashes give: hash is that order, the registers     *)
(* it does not list following in the order they were minted.               *)

MaxRegister == 24   \* the anonymous registers a hash order goes on with

SOut(f, alias, c) == [flow |-> f, alias |-> alias, counter |-> c]

RECURSIVE SingleAssignTransform_expr(_, _)
SingleAssignTransform_expr(e, alias) ==
    CASE e.kind = "RefExpr" ->
           IF e.name \in DOMAIN alias THEN RefExpr(alias[e.name]) ELSE e
      [] e.kind = "FunctionExpr" ->
           FunctionExpr(e.name,
               [i \in 1..Len(e.args) |->
                    SingleAssignTransform_expr(e.args[i], alias)])
      [] e.kind = "GetExpr" ->
           GetExpr(e.block, e.index,
                   SingleAssignTransform_expr(e.offset, alias))
      [] e.kind = "AssignStatement" ->
           AssignStatement(e.name,
                           SingleAssignTransform_expr(e.value, alias), TRUE)
      [] e.kind = "SetStatement" ->
           SetStatement(e.block, e.index,
                        SingleAssignTransform_expr(e.offset, alias),
                        SingleAssignTransform_expr(e.value, alias))
      [] OTHER -> e

RECURSIVE SingleAssignTransform_nodes(_, _, _, _, _)
\* b: node i optimized
SingleAssignTransform_node(nodes, i, blocks, alias, c, b) ==
    IF b.kind # "AssignStatement"
    THEN SingleAssignTransform_nodes(nodes, i + 1, Append(blocks, b),
                                     alias, c)
    ELSE IF b.name \notin DOMAIN alias
    THEN SingleAssignTransform_nodes(nodes, i + 1, Append(blocks, b),
                                     Store(alias, b.name, b.name), c)
    ELSE SingleAssignTransform_nodes(nodes, i + 1,
             Append(blocks, AssignStatement(anonymous(c + 1), b.value, TRUE)),
             Store(alias, b.name, anonymous(c + 1)), c + 1)
SingleAssignTransform_nodes(nodes, i, blocks, alias, c) ==
    IF i > Len(nodes) THEN SOut(blocks, alias, c)
    ELSE SingleAssignTransform_node(nodes, i, blocks, alias, c,
             SingleAssignTransform_expr(nodes[i], alias))

\* the names of phi in the order the set iterates them
PhiOrder(phi, hash) ==
    SelectSeq(hash, LAMBDA x : x \in phi)
        \o SelectSeq([k \in 1..MaxRegister |-> anonymous(k)],
                     LAMBDA x : x \in phi
                                 /\ \A i \in 1..Len(hash) : hash[i] # x)

\* `c.alias.get(name, name)`
AliasOf(alias, name) == IF name \in DOMAIN alias THEN alias[name] ELSE name

RECURSIVE Selectors(_, _, _, _, _, _, _)
\* the for loop over phi before its name i; cond: the condition's register,
\* c: the counter when the loop started
Selectors(names, i, result, cond, cases, bodies, c) ==
    IF i > Len(names) THEN result
    ELSE Selectors(names, i + 1,
             Flow_attach(result,
                 SwitchFlow(anonymous(c + i), RefExpr(cond),
                     [j \in 1..Len(cases) |->
                          Case(cases[j],
                               ExecuteFlow(<<RefExpr(AliasOf(bodies[j].alias,
                                                             names[i]))>>,
                                           None))],
                     IF Len(bodies) > Len(cases)
                     THEN ExecuteFlow(
                              <<RefExpr(AliasOf(bodies[Len(bodies)].alias,
                                                names[i]))>>, None)
                     ELSE None,
                     None)),
             cond, cases, bodies, c)

RECURSIVE SingleAssignTransform(_, _, _, _)
RECURSIVE SingleAssignTransform_arms(_, _, _, _, _, _)
RECURSIVE SingleAssignTransform_arm(_, _, _, _, _, _)

\* the for loop over the arms before arm i, each from a copy of the context
SingleAssignTransform_arms(flows, i, bodies, alias, c, hash) ==
    IF i > Len(flows) THEN [bodies |-> bodies, counter |-> c]
    ELSE SingleAssignTransform_arm(flows, i, bodies, alias, hash,
             SingleAssignTransform(flows[i], alias, c, hash))

\* q: the continuation optimized
SingleAssignTransform_then(f, q) ==
    SOut(IF q.flow = None THEN f ELSE Flow_attach(f, q.flow),
         q.alias, q.counter)

\* result: the Switch with its selectors, alias: the context they leave
SingleAssignTransform_next(n, result, alias, c, hash) ==
    IF IsError(result) THEN SOut(result, alias, c)
    ELSE SingleAssignTransform_then(result,
             SingleAssignTransform(n.next, alias, c, hash))

\* bodies: the arms optimized, names: phi in its iteration order,
\* new: the names an arm assigned first
SingleAssignTransform_phi(n, alias, c, hash, bodies, names, new) ==
    LET condition == SingleAssignTransform_expr(n.condition, alias)
        cases == [i \in 1..Len(n.cases) |->
                     SingleAssignTransform_expr(n.cases[i].case, alias)]
        zipped == [i \in 1..Len(n.cases) |-> Case(cases[i], bodies[i].flow)]
        kept == [x \in DOMAIN alias \cup new |->
                    IF x \in new THEN x ELSE alias[x]]
    IN  IF names = <<>>
        THEN SingleAssignTransform_next(n,
                 SwitchFlow(n.result, condition, zipped,
                            DefaultArm(n, bodies), None),
                 kept, c, hash)
        ELSE SingleAssignTransform_next(n,
                 Selectors(names, 1,
                     ExecuteFlow(
                         <<AssignStatement(anonymous(c + 1), condition, TRUE)>>,
                         SwitchFlow(n.result, RefExpr(anonymous(c + 1)),
                                    zipped, DefaultArm(n, bodies), None)),
                     anonymous(c + 1), cases, bodies, c + 1),
                 [x \in DOMAIN kept \cup {names[i] : i \in 1..Len(names)} |->
                     IF \E i \in 1..Len(names) : names[i] = x
                     THEN anonymous(c + 1
                              + CHOOSE i \in 1..Len(names) : names[i] = x)
                     ELSE kept[x]],
                 c + 1 + Len(names), hash)

\* modified: the (name, alias) pairs an arm left that the context has not
SingleAssignTransform_modified(n, alias, c, hash, bodies, modified) ==
    SingleAssignTransform_phi(n, alias, c, hash, bodies,
        PhiOrder({m[1] : m \in {x \in modified : x[1] # x[2]}}, hash),
        {m[1] : m \in {x \in modified : x[1] = x[2]}})

\* r: the arms optimized and the counter they leave
SingleAssignTransform_switch(n, alias, hash, r) ==
    IF r.bodies = <<>> THEN SOut(ErrorNode("TypeError"), alias, r.counter)
    ELSE SingleAssignTransform_modified(n, alias, r.counter, hash, r.bodies,
             UNION {Items(r.bodies[i].alias) : i \in 1..Len(r.bodies)}
                 \ Items(alias))

\* q: arm i optimized
SingleAssignTransform_arm(flows, i, bodies, alias, hash, q) ==
    SingleAssignTransform_arms(flows, i + 1, Append(bodies, q), alias,
                               q.counter, hash)

\* q: the continuation optimized
SingleAssignTransform_execute_end(blocks, q) ==
    SOut(ExecuteFlow(blocks, q.flow), q.alias, q.counter)
SingleAssignTransform_loop_end(condition, body, q) ==
    SOut(LoopFlow(condition, body, q.flow), q.alias, q.counter)

\* r: the nodes optimized
SingleAssignTransform_execute(n, hash, r) ==
    SingleAssignTransform_execute_end(r.flow,
        SingleAssignTransform(n.next, r.alias, r.counter, hash))

\* b: the body optimized
SingleAssignTransform_loop(n, alias, hash, b) ==
    SingleAssignTransform_loop_end(
        SingleAssignTransform_expr(n.condition, alias), b.flow,
        SingleAssignTransform(n.next, b.alias, b.counter, hash))

SingleAssignTransform(n, alias, c, hash) ==
    CASE n = None -> SOut(None, alias, c)
      [] n.kind = "ExecuteFlow" ->
           SingleAssignTransform_execute(n, hash,
               SingleAssignTransform_nodes(n.nodes, 1, <<>>, alias, c))
      [] n.kind = "SwitchFlow" ->
           SingleAssignTransform_switch(n, alias, hash,
               SingleAssignTransform_arms(Arms(n), 1, <<>>, alias, c, hash))
      [] n.kind = "LoopFlow" ->
           SingleAssignTransform_loop(n, alias, hash,
               SingleAssignTransform(n.body, alias, c, hash))

(* VariableInline (optimizer/variable.py).  analyze counts, over the whole *)
(* graph, the assignments and the references of every name; optimize then  *)
(* walks the graph with the values dict of the instance.                   *)

RECURSIVE Assigned(_)
RECURSIVE AssignedIn(_, _)
\* the names analyze counts in assign_count, one entry a count
Assigned(n) ==
    CASE n.kind = "AssignStatement" -> <<n.name>>
      [] n.kind = "ExecuteFlow" -> AssignedIn(n.nodes, 1) \o Assigned(n.next)
      [] n.kind = "SwitchFlow" ->
           <<n.result>>
               \o AssignedIn([i \in 1..Len(n.cases) |-> n.cases[i].body], 1)
               \o Assigned(n.default) \o Assigned(n.next)
      [] n.kind = "LoopFlow" -> Assigned(n.body) \o Assigned(n.next)
      [] OTHER -> <<>>
AssignedIn(ns, i) ==
    IF i > Len(ns) THEN <<>> ELSE Assigned(ns[i]) \o AssignedIn(ns, i + 1)

RECURSIVE Referenced(_)
RECURSIVE ReferencedIn(_, _)
\* the names analyze counts in ref_count, one entry a count
Referenced(n) ==
    CASE n.kind = "RefExpr" -> <<n.name>>
      [] n.kind = "FunctionExpr" -> ReferencedIn(n.args, 1)
      [] n.kind = "GetExpr" -> Referenced(n.offset)
      [] n.kind = "AssignStatement" -> Referenced(n.value)
      [] n.kind = "SetStatement" -> Referenced(n.offset) \o Referenced(n.value)
      [] n.kind = "ExecuteFlow" ->
           ReferencedIn(n.nodes, 1) \o Referenced(n.next)
      [] n.kind = "SwitchFlow" ->
           Referenced(n.condition)
               \o ReferencedIn([i \in 1..Len(n.cases) |-> n.cases[i].case], 1)
               \o ReferencedIn([i \in 1..Len(n.cases) |-> n.cases[i].body], 1)
               \o Referenced(n.default) \o Referenced(n.next)
      [] n.kind = "LoopFlow" ->
           Referenced(n.condition) \o Referenced(n.body) \o Referenced(n.next)
      [] OTHER -> <<>>
ReferencedIn(ns, i) ==
    IF i > Len(ns) THEN <<>> ELSE Referenced(ns[i]) \o ReferencedIn(ns, i + 1)

\* the names assigned once and referenced once
InlineNames(assigned, referenced) ==
    {assigned[i] : i \in {k \in 1..Len(assigned) :
        /\ Occurrences(assigned, assigned[k]) = 1
        /\ Occurrences(referenced, assigned[k]) = 1}}

VOut(f, values) == [flow |-> f, values |-> values]

RECURSIVE VariableInline_expr(_, _, _)
RECURSIVE VariableInline_apply(_, _, _)
\* optimize on an expression; stack: the names whose value is being
\* expanded, a name met again while it is expanded never stops expanding
VariableInline_expr(e, values, stack) ==
    IF e.kind # "RefExpr" THEN VariableInline_apply(e, values, stack)
    ELSE IF e.name \notin DOMAIN values THEN e
    ELSE IF e.name \in stack THEN ErrorNode("RecursionError")
    ELSE VariableInline_apply(values[e.name], values, stack \cup {e.name})
VariableInline_apply(e, values, stack) ==
    CASE e.kind = "FunctionExpr" ->
           FunctionExpr(e.name,
               [i \in 1..Len(e.args) |->
                    VariableInline_expr(e.args[i], values, stack)])
      [] e.kind = "GetExpr" ->
           GetExpr(e.block, e.index,
                   VariableInline_expr(e.offset, values, stack))
      [] OTHER -> e

\* values: the dict once optimize_AssignStatement has recorded the value
VariableInline_statement(b, values) ==
    CASE b.kind = "AssignStatement" ->
           AssignStatement(b.name, VariableInline_expr(b.value, values, {}),
                           TRUE)
      [] b.kind = "SetStatement" ->
           SetStatement(b.block, b.index,
                        VariableInline_expr(b.offset, values, {}),
                        VariableInline_expr(b.value, values, {}))
      [] OTHER -> VariableInline_expr(b, values, {})

VariableInline_record(b, values, once) ==
    IF b.kind = "AssignStatement" /\ b.name \in once
    THEN Store(values, b.name, b.value) ELSE values

RECURSIVE VariableInline_nodes(_, _, _, _, _)
VariableInline_nodes(nodes, i, blocks, values, once) ==
    IF i > Len(nodes) THEN VOut(blocks, values)
    ELSE VariableInline_nodes(nodes, i + 1,
             Append(blocks,
                    VariableInline_statement(nodes[i],
                        VariableInline_record(nodes[i], values, once))),
             VariableInline_record(nodes[i], values, once), once)

RECURSIVE VariableInline_flow(_, _, _)
RECURSIVE VariableInline_bodies(_, _, _, _, _)

\* q: arm i optimized
VariableInline_body(flows, i, bodies, once, q) ==
    VariableInline_bodies(flows, i + 1, Append(bodies, q.flow), q.values,
                          once)
VariableInline_bodies(flows, i, bodies, values, once) ==
    IF i > Len(flows) THEN VOut(bodies, values)
    ELSE VariableInline_body(flows, i, bodies, once,
             VariableInline_flow(flows[i], values, once))

\* q: the continuation optimized
VariableInline_execute_end(blocks, q) ==
    VOut(ExecuteFlow(blocks, q.flow), q.values)
\* r: the nodes optimized
VariableInline_execute(n, once, r) ==
    VariableInline_execute_end(r.flow,
        VariableInline_flow(n.next, r.values, once))

VariableInline_switch_end(n, values, bodies, q) ==
    VOut(SwitchFlow(n.result,
             VariableInline_expr(n.condition, values, {}),
             [i \in 1..Len(n.cases) |->
                  Case(VariableInline_expr(n.cases[i].case, values, {}),
                       bodies[i])],
             IF n.default = None THEN None ELSE bodies[Len(bodies)],
             q.flow),
         q.values)
\* r: the arms optimized one after the other
VariableInline_switch(n, values, once, r) ==
    VariableInline_switch_end(n, values, r.flow,
        VariableInline_flow(n.next, r.values, once))

VariableInline_loop_end(condition, body, q) ==
    VOut(LoopFlow(condition, body, q.flow), q.values)
\* b: the body optimized
VariableInline_loop(n, values, once, b) ==
    VariableInline_loop_end(VariableInline_expr(n.condition, values, {}),
        b.flow, VariableInline_flow(n.next, b.values, once))

VariableInline_flow(n, values, once) ==
    CASE n = None -> VOut(None, values)
      [] n.kind = "ExecuteFlow" ->
           VariableInline_execute(n, once,
               VariableInline_nodes(n.nodes, 1, <<>>, values, once))
      [] n.kind = "SwitchFlow" ->
           VariableInline_switch(n, values, once,
               VariableInline_bodies(Arms(n), 1, <<>>, values, once))
      [] n.kind = "LoopFlow" ->
           VariableInline_loop(n, values, once,
               VariableInline_flow(n.body, values, once))

\* VariableInline(flow).optimize(flow)
VariableInline(f) ==
    VariableInline_flow(f, <<>>,
                        InlineNames(Assigned(f), Referenced(f))).flow

(* AssignmentStaticization (optimizer/variable.py).  analyze counts the    *)
(* assignments of every name; optimize walks the graph with the pure set.  *)

Impure ==
    {"Random", "RandomInteger", "Draw", "DrawCurvedL", "DrawCurvedR",
     "DrawCurvedLR", "DrawCurvedB", "DrawCurvedT", "DrawCurvedBT", "Play",
     "PlayScheduled", "Spawn", "SpawnParticleEffect", "MoveParticleEffect",
     "DestroyParticleEffect", "DebugPause", "DebugLog"}

RECURSIVE is_pure(_, _)
is_pure(block, pure) ==
    CASE block.kind = "ValueExpr" -> TRUE
      [] block.kind = "RefExpr" -> block.name \in pure
      [] block.kind = "FunctionExpr" ->
           /\ block.name \notin Impure
           /\ \A i \in 1..Len(block.args) : is_pure(block.args[i], pure)
      [] OTHER -> FALSE

RECURSIVE Statements(_)
RECURSIVE StatementsIn(_, _)
\* the names analyze counts, one entry an AssignStatement
Statements(n) ==
    CASE n.kind = "AssignStatement" -> <<n.name>>
      [] n.kind = "ExecuteFlow" ->
           StatementsIn(n.nodes, 1) \o Statements(n.next)
      [] n.kind = "SwitchFlow" ->
           StatementsIn([i \in 1..Len(n.cases) |-> n.cases[i].body], 1)
               \o Statements(n.default) \o Statements(n.next)
      [] n.kind = "LoopFlow" -> Statements(n.body) \o Statements(n.next)
      [] OTHER -> <<>>
StatementsIn(ns, i) ==
    IF i > Len(ns) THEN <<>> ELSE Statements(ns[i]) \o StatementsIn(ns, i + 1)

\* the names with count 1
SingleNames(names) ==
    {names[i] : i \in {k \in 1..Len(names) : Occurrences(names, names[k]) = 1}}

AOut(f, pure) == [flow |-> f, pure |-> pure]

\* optimize_AssignStatement learns the name
AssignmentStaticization_learns(b, pure, single) ==
    /\ b.kind = "AssignStatement"
    /\ \/ ~b.mutable
       \/ b.name \in single /\ is_pure(b.value, pure)

RECURSIVE AssignmentStaticization_nodes(_, _, _, _, _)
AssignmentStaticization_nodes(nodes, i, blocks, pure, single) ==
    IF i > Len(nodes) THEN AOut(blocks, pure)
    ELSE IF AssignmentStaticization_learns(nodes[i], pure, single)
    THEN AssignmentStaticization_nodes(nodes, i + 1,
             Append(blocks,
                    AssignStatement(nodes[i].name, nodes[i].value, FALSE)),
             pure \cup {nodes[i].name}, single)
    ELSE AssignmentStaticization_nodes(nodes, i + 1,
             Append(blocks, nodes[i]), pure, single)

RECURSIVE AssignmentStaticization_flow(_, _, _)
RECURSIVE AssignmentStaticization_bodies(_, _, _, _, _)

\* q: arm i optimized
AssignmentStaticization_body(flows, i, bodies, single, q) ==
    AssignmentStaticization_bodies(flows, i + 1, Append(bodies, q.flow),
                                   q.pure, single)
AssignmentStaticization_bodies(flows, i, bodies, pure, single) ==
    IF i > Len(flows) THEN AOut(bodies, pure)
    ELSE AssignmentStaticization_body(flows, i, bodies, single,
             AssignmentStaticization_flow(flows[i], pure, single))

\* q: the continuation optimized
AssignmentStaticization_execute_end(blocks, q) ==
    AOut(ExecuteFlow(blocks, q.flow), q.pure)
\* r: the nodes optimized
AssignmentStaticization_execute(n, single, r) ==
    AssignmentStaticization_execute_end(r.flow,
        AssignmentStaticization_flow(n.next, r.pure, single))

AssignmentStaticization_switch_end(n, bodies, q) ==
    AOut(SwitchFlow(n.result, n.condition,
             [i \in 1..Len(n.cases) |-> Case(n.cases[i].case, bodies[i])],
             IF n.default = None THEN None ELSE bodies[Len(bodies)],
             q.flow),
         q.pure)
\* r: the arms optimized one after the other
AssignmentStaticization_switch(n, single, r) ==
    AssignmentStaticization_switch_end(n, r.flow,
        AssignmentStaticization_flow(n.next, r.pure, single))

AssignmentStaticization_loop_end(n, body, q) ==
    AOut(LoopFlow(n.condition, body, q.flow), q.pure)
\* b: the body optimized
AssignmentStaticization_loop(n, single, b) ==
    AssignmentStaticization_loop_end(n, b.flow,
        AssignmentStaticization_flow(n.next, b.pure, single))

AssignmentStaticization_flow(n, pure, single) ==
    CASE n = None -> AOut(None, pure)
      [] n.kind = "ExecuteFlow" ->
           AssignmentStaticization_execute(n, single,
               AssignmentStaticization_nodes(n.nodes, 1, <<>>, pure, single))
      [] n.kind = "SwitchFlow" ->
           AssignmentStaticization_switch(n, single,
               AssignmentStaticization_bodies(Arms(n), 1, <<>>, pure, single))
      [] n.kind = "LoopFlow" ->
           AssignmentStaticization_loop(n, single,
               AssignmentStaticization_flow(n.body, pure, single))

\* AssignmentStaticization(flow).optimize(flow)
AssignmentStaticization(f) ==
    AssignmentStaticization_flow(f, {}, SingleNames(Statements(f))).flow

----------------------------------------------------------------------------
(* The pass registry and optimize (optimizer/core.py).  A pass class is     *)
(* registered when its module is imported, a module importing first the     *)
(* modules it names; nothing in the package imports the passes, the order   *)
(* of the imports is the caller's.                                          *)

\* the `dependencies=` of each class statement
Dependencies ==
    [ConstantPropagation |-> {},
     ConstantFold |-> {"ConstantPropagation"},
     UnusedVariableElimination |-> {"ConstantFold"},
     UselessValueElimination |-> {"UnusedVariableElimination"},
     SwitchElimination |-> {"ConstantFold"},
     BranchMerge |-> {"ConstantFold"},
     SwitchFold |-> {"ConstantFold"},
     MergeExecute |-> {"SwitchElimination"},
     RemoveEmptyExecute |-> {"SwitchElimination"},
     SingleAssignTransform |-> {},
     VariableInline |-> {"UnusedVariableElimination", "SingleAssignTransform"},
     AssignmentStaticization |-> {"SingleAssignTransform"}]

\* the class statements of each module, in file order
Classes ==
    [constant |-> <<"ConstantPropagation", "ConstantFold">>,
     elimination |-> <<"UnusedVariableElimination", "UselessValueElimination">>,
     switch |-> <<"SwitchElimination", "BranchMerge", "SwitchFold">>,
     execute |-> <<"MergeExecute", "RemoveEmptyExecute">>,
     variable |-> <<"SingleAssignTransform", "VariableInline",
                    "AssignmentStaticization">>]

\* the pass modules each module imports before its class statements
Imports ==
    [constant |-> <<>>,
     elimination |-> <<"constant">>,
     switch |-> <<"constant">>,
     execute |-> <<"switch">>,
     variable |-> <<"elimination">>]

RECURSIVE depend_on(_, _, _)
\* dependencies: each class's `dependencies` attribute
depend_on(dependencies, a, b) ==
    a = b \/ \E dep \in dependencies[a] : depend_on(dependencies, dep, b)

\* the insertion right after the first class it depends on
AfterFirstDependency(dependencies, order, cls) ==
    LET l == IF \E i \in 1..Len(order) : depend_on(dependencies, cls, order[i])
             THEN CHOOSE i \in 1..Len(order) :
                      /\ depend_on(dependencies, cls, order[i])
                      /\ \A j \in 1..(i - 1) :
                             ~depend_on(dependencies, cls, order[j])
             ELSE 0
    IN  SubSeq(order, 1, l) \o <<cls>> \o SubSeq(order, l + 1, Len(order))

\* Optimizer.__init_subclass__: after the last class it depends on
Optimizer_init_subclass(dependencies, order, cls) ==
    LET l == CHOOSE i \in 0..Len(order) :
                 /\ i > 0 => depend_on(dependencies, cls, order[i])
                 /\ \A j \in (i + 1)..Len(order) :
                        ~depend_on(dependencies, cls, order[j])
    IN  SubSeq(order, 1, l) \o <<cls>> \o SubSeq(order, l + 1, Len(order))

Registry(loaded, order) == [loaded |-> loaded, order |-> order]

RECURSIVE RegisterClasses(_, _, _)
RegisterClasses(order, classes, i) ==
    IF i > Len(classes) THEN order
    ELSE RegisterClasses(
             Optimizer_init_subclass(Dependencies, order, classes[i]),
             classes, i + 1)

RECURSIVE ImportModule(_, _)
RECURSIVE ImportModules(_, _, _)
\* r: the registry once the module's own imports are done
ImportModule_body(module, r) ==
    Registry(r.loaded \cup {module},
             RegisterClasses(r.order, Classes[module], 1))
\* `import pysonolus.optimizer.<module>`: a module is executed once
ImportModule(r, module) ==
    IF module \in r.loaded THEN r
    ELSE ImportModule_body(module, ImportModules(r, Imports[module], 1))
ImportModules(r, modules, i) ==
    IF i > Len(modules) THEN r
    ELSE ImportModules(ImportModule(r, modules[i]), modules, i + 1)

\* Optimizer.topological_order once the caller's imports are done
topological_order(imports) == ImportModules(Registry({}, <<>>), imports, 1).order

ROut(f, c) == [flow |-> f, counter |-> c]

\* r: what SingleAssignTransform leaves
SingleAssignTransform_out(r) == ROut(r.flow, r.counter)

\* optimizer(optimized).optimize(optimized)
Pass(cls, f, c, hash) ==
    CASE f = None -> ROut(ErrorNode("AttributeError"), c)
      [] cls = "ConstantPropagation" ->
           ROut(ConstantPropagation(f, <<>>).flow, c)
      [] cls = "ConstantFold" -> ROut(ConstantFold_optimize(f), c)
      [] cls = "UnusedVariableElimination" ->
           ROut(UnusedVariableElimination(f), c)
      [] cls = "UselessValueElimination" ->
           ROut(UselessValueElimination(f), c)
      [] cls = "SwitchElimination" -> ROut(SwitchElimination(f), c)
      [] cls = "BranchMerge" -> ROut(BranchMerge(f), c)
      [] cls = "SwitchFold" -> ROut(SwitchFold(f), c)
      [] cls = "MergeExecute" -> ROut(MergeExecute(f), c)
      [] cls = "RemoveEmptyExecute" -> ROut(RemoveEmptyExecute(f), c)
      [] cls = "SingleAssignTransform" ->
           SingleAssignTransform_out(SingleAssignTransform(f, <<>>, c, hash))
      [] cls = "VariableInline" -> ROut(VariableInline(f), c)
      [] cls = "AssignmentStaticization" ->
           ROut(AssignmentStaticization(f), c)

RECURSIVE Round(_, _, _, _)
\* the for loop of optimize before the pass i; r: `optimized` and the counter
Round(order, i, r, hash) ==
    IF i > Len(order) \/ IsError(r.flow) THEN r
    ELSE Round(order, i + 1, Pass(order[i], r.flow, r.counter, hash), hash)

\* a comparison of the two blocks' kinds only
SameKind(optimized, f) == optimized.kind = f.kind

\* `if optimized == flow: break`
Stops(optimized, f) == optimized = f

----------------------------------------------------------------------------
(* Constant folding: ConstantFold(flow).optimize(flow) on a graph that     *)
(* holds one arithmetic call of integer literals.                          *)

MinLiteral == 0 - 1   \* the literals of a folded call: MinLiteral..MaxLiteral
MaxLiteral == 4

Arithmetic == {"Add", "Subtract", "Multiply", "Divide"}
Literals == {ValueExpr(Num(v)) : v \in MinLiteral..MaxLiteral}

RECURSIVE ArithmeticValue(_)
RECURSIVE LeftToRight(_, _, _, _)
\* the number a call of literals denotes, operands taken left to right
ArithmeticValue(e) ==
    IF IsValue(e) THEN e.value
    ELSE LeftToRight(e.name, e.args, 2, ArithmeticValue(e.args[1]))
LeftToRight(name, args, i, acc) ==
    IF i > Len(args) THEN acc
    ELSE LeftToRight(name, args, i + 1,
             CASE name = "Add" -> QAdd(acc, ArithmeticValue(args[i]))
               [] name = "Subtract" -> QSub(acc, ArithmeticValue(args[i]))
               [] name = "Multiply" -> QMul(acc, ArithmeticValue(args[i]))
               [] name = "Divide" -> QDiv(acc, ArithmeticValue(args[i])))

RECURSIVE NonZeroDivisors(_)
NonZeroDivisors(e) ==
    IsValue(e) \/
        /\ \A i \in 1..Len(e.args) : NonZeroDivisors(e.args[i])
        /\ e.name = "Divide" =>
               \A i \in 2..Len(e.args) : ~QZero(ArithmeticValue(e.args[i]))

FlatCalls ==
    {FunctionExpr(name, args) :
        name \in Arithmetic, args \in SeqsUpTo(Literals, 3) \ {<<>>}}
NestedCalls ==
    {FunctionExpr(outer, <<a, FunctionExpr(inner, <<b, c>>)>>) :
        outer \in Arithmetic, inner \in Arithmetic,
        a \in Literals, b \in Literals, c \in {ValueExpr(Num(0)),
                                               ValueExpr(Num(4))}}
FoldCalls == {e \in FlatCalls \cup NestedCalls : NonZeroDivisors(e)}

InitFold ==
    /\ pc = "unfolded"
    /\ counter = 0
    /\ source \in {[form |-> "fold", call |-> e] : e \in FoldCalls}
    /\ node = F_empty
    /\ flow = ExecuteFlow(<<source.call>>, None)
    /\ machine = Idle

\* ConstantFold(flow).optimize(flow)
Fold ==
    /\ pc = "unfolded"
    /\ flow' = ConstantFold_optimize(flow)
    /\ pc' = "folded"
    /\ UNCHANGED <<counter, source, node, machine>>

NextFold == Fold
SpecFold == InitFold /\ [][NextFold]_vars

\* C8: a call to Add, Subtract, Multiply or Divide whose arguments are all
\* integer literals (no zero divisor) folds to the one literal equal to the
\* arithmetic result, Subtract and Divide taken left to right.
C8_FoldsToResult ==
    pc = "folded" =>
        flow = ExecuteFlow(<<ValueExpr(ArithmeticValue(source.call))>>, None)

----------------------------------------------------------------------------
(* Constant folding of a call that keeps a non-literal argument: the       *)
(* arguments are literals and the registers x and y, of which the source   *)
(* gives the run-time values.                                              *)

MaxTerms == 3       \* arguments of an arithmetic call: 1..MaxTerms
MaxUnknown == 2     \* a register's value: MinLiteral..MaxUnknown

Unknowns == {RefExpr("x"), RefExpr("y")}
Terms ==
    Unknowns \cup {ValueExpr(Num(0)), ValueExpr(Num(2)), ValueExpr(Num(3))}

OpenCalls ==
    {FunctionExpr(name, args) :
        name \in Arithmetic,
        args \in {a \in SeqsUpTo(Terms, MaxTerms) :
                    \E i \in 1..Len(a) : ~IsValue(a[i])}}

InitOpenFold ==
    /\ pc = "open"
    /\ counter = 0
    /\ source \in {[form |-> "open", call |-> e,
                     regs |-> [r \in {"x", "y"} |->
                                  IF r = "x" THEN Num(vx) ELSE Num(vy)]] :
                       e \in OpenCalls,
                       vx \in MinLiteral..MaxUnknown,
                       vy \in MinLiteral..MaxUnknown}
    /\ node = F_empty
    /\ flow = ExecuteFlow(<<source.call>>, None)
    /\ machine = Idle

\* ConstantFold(flow).optimize(flow)
OpenFold ==
    /\ pc = "open"
    /\ flow' = ConstantFold_optimize(flow)
    /\ pc' = "open-folded"
    /\ UNCHANGED <<counter, source, node, machine>>

NextOpenFold == OpenFold
SpecOpenFold == InitOpenFold /\ [][NextOpenFold]_vars

\* what a call yields that has no number: a division by zero, or a
\* function the runtime does not have
NoNumber == <<0, 0>>

RECURSIVE OpenValue(_, _)
RECURSIVE OpenLeftToRight(_, _, _, _, _)
\* the number an expression denotes on the registers regs, operands taken
\* left to right
OpenValue(e, regs) ==
    CASE IsValue(e) -> e.value
      [] e.kind = "RefExpr" -> regs[e.name]
      [] e.kind = "FunctionExpr" /\ e.name \in Arithmetic /\ e.args # <<>> ->
           OpenLeftToRight(e.name, e.args, 2, OpenValue(e.args[1], regs),
                           regs)
      [] OTHER -> NoNumber
OpenLeftToRight(name, args, i, acc, regs) ==
    IF i > Len(args) \/ acc = NoNumber THEN acc
    ELSE LET v == OpenValue(args[i], regs)
         IN  OpenLeftToRight(name, args, i + 1,
                 CASE v = NoNumber -> NoNumber
                   [] name = "Add" -> QAdd(acc, v)
                   [] name = "Subtract" -> QSub(acc, v)
                   [] name = "Multiply" -> QMul(acc, v)
                   [] name = "Divide" ->
                        IF QZero(v) THEN NoNumber ELSE QDiv(acc, v),
                 regs)

\* the non-literal arguments of a call, or the bare operand, in order
NonLiterals(e) ==
    IF e.kind = "FunctionExpr"
    THEN SelectSeq(e.args, LAMBDA a : ~IsValue(a))
    ELSE IF IsValue(e) THEN <<>> ELSE <<e>>

Folded == flow.nodes[1]

\* C20: ConstantFold on an Add, Subtract, Multiply or Divide call with a
\* non-literal argument returns a call of the same built-in or a bare
\* operand, keeps the non-literal arguments in their order, and the
\* result denotes the same number as the call for every value of the
\* non-literal arguments.
C20_FoldKeepsValue ==
    pc = "open-folded" =>
        /\ ~IsError(Folded)
        /\ Folded.kind = "FunctionExpr" => Folded.name = source.call.name
        /\ NonLiterals(Folded) = NonLiterals(source.call)
        /\ OpenValue(source.call, source.regs) # NoNumber =>
               OpenValue(Folded, source.regs)
                   = OpenValue(source.call, source.regs)

----------------------------------------------------------------------------
(* The optimizer: optimize(flow) on the graph lowered from a tree, with     *)
(* the passes registered by the caller's imports.  optimize is a            *)
(* generator: a step is one resumption of it, that is one full round.       *)

MaxStatements == 2   \* the statements of a program before its last value

Five == ValueNode(Num(5))
Ten == ValueNode(Num(10))

OptStatements ==
    {AssignNode("x", Five), AssignNode("y", Ten),
     AssignNode("y", FunctionNode("Add", <<RefNode("x"), F_true>>)),
     AssignNode("y", FunctionNode("Draw", <<RefNode("x"), RefNode("y")>>)),
     FunctionNode("Draw", <<RefNode("x")>>),
     IfNode(F_true, AssignNode("x", F_true), AssignNode("x", Five)),
     IfNode(RefNode("x"),
            ExecuteNode(<<AssignNode("x", F_true), AssignNode("y", F_true),
                          AssignNode("x", Five), AssignNode("y", Five)>>),
            F_false),
     WhileNode(FunctionNode("Less", <<RefNode("x"), Five>>),
               AssignNode("x", FunctionNode("Add", <<RefNode("x"), F_true>>)))}

OptValues == {RefNode("y"), FunctionNode("Add", <<RefNode("x"), RefNode("y")>>)}

OptTrees ==
    {ExecuteNode(Append(ss, v)) :
        ss \in SeqsUpTo(OptStatements, MaxStatements), v \in OptValues}

\* the orders a caller can import the pass modules in
ImportOrders ==
    {<<"elimination", "variable", "switch", "execute">>,
     <<"elimination", "switch", "variable", "execute">>,
     <<"elimination", "switch", "execute", "variable">>,
     <<"switch", "elimination", "variable", "execute">>,
     <<"switch", "elimination", "execute", "variable">>,
     <<"switch", "execute", "elimination", "variable">>}

\* the orders a set of the names x and y is iterated in
HashOrders == {<<"x", "y">>, <<"y", "x">>}

InitOptimize ==
    /\ pc = "graph"
    /\ node \in OptTrees
    /\ flow = transform(node, 0).flow
    /\ counter = transform(node, 0).counter
    /\ source \in {[form |-> "graph", graph |-> flow, imports |-> i,
                    hash |-> h] : i \in ImportOrders, h \in HashOrders}
    /\ machine = Idle

\* r: `optimized` after the for loop, and the counter
Optimize_round(r) ==
    /\ pc' = IF IsError(r.flow) THEN "raised"
             ELSE IF Stops(r.flow, flow) THEN "fixpoint" ELSE "yielded"
    /\ flow' = IF ~IsError(r.flow) /\ Stops(r.flow, flow) THEN flow ELSE r.flow
    /\ counter' = r.counter
    /\ UNCHANGED <<source, node, machine>>

\* next(optimize(flow)): one round; an exception leaves the exception in
\* place of the graph
Optimize ==
    /\ pc \in {"graph", "yielded"}
    /\ counter <= MaxRegister
    /\ Optimize_round(Round(topological_order(source.imports), 1,
                            ROut(flow, counter), source.hash))

NextOptimize == Optimize
SpecOptimize == InitOptimize /\ [][NextOptimize]_vars

\* C7: optimize stops exactly when a full round returns a graph equal to
\* the round's input, and one more full round on the graph it stopped at
\* returns that graph unchanged.
C7_StopsAtFixpoint ==
    [][(pc \in {"graph", "yielded"} =>
          /\ pc' = "fixpoint" <=>
                 Round(topological_order(source.imports), 1,
                       ROut(flow, counter), source.hash).flow = flow
          /\ pc' = "fixpoint" =>
                 Round(topological_order(source.imports), 1,
                       ROut(flow', counter'), source.hash).flow = flow'
       )]_vars

\* optimize stopped after a round that changed the graph
C7_Witness == pc = "fixpoint" /\ flow # source.graph

\* C9: in the graph optimize stops at, every AssignStatement targets a
\* register that is read somewhere in the graph.
C9_NoUnreadAssignment ==
    pc = "fixpoint" =>
        \A i \in 1..Len(Statements(flow)) : Statements(flow)[i] \in Refs(flow)

\* optimize stopped on `x = 5; y = 10; return y`
C9_Witness ==
    /\ pc = "fixpoint"
    /\ node = ExecuteNode(<<AssignNode("x", Five), AssignNode("y", Ten),
                            RefNode("y")>>)
    /\ "x" \notin Refs(source.graph)

----------------------------------------------------------------------------
(* The smart constructors of node/IR.py on their own: one constructor      *)
(* applied to operands of which any may be the empty Execute.              *)

MaxOperands == 3    \* operands of Execute, And, Or and a built-in call

ConstructorOperands ==
    { F_empty, F_true, RefNode("x"), AssignNode("x", F_true),
      ExecuteNode(<<RefNode("x"), RefNode("y")>>) }

Constructions ==
    { [form |-> "construct", ctor |-> c, operands |-> ops] :
        c \in {"If"}, ops \in [1..3 -> ConstructorOperands] }
    \cup { [form |-> "construct", ctor |-> c, operands |-> ops] :
             c \in {"Assign"}, ops \in [1..1 -> ConstructorOperands] }
    \cup { [form |-> "construct", ctor |-> c, operands |-> ops] :
             c \in {"Execute", "Add"},
             ops \in SeqsUpTo(ConstructorOperands, MaxOperands) }
    \cup { [form |-> "construct", ctor |-> c, operands |-> ops] :
             c \in {"And", "Or"},
             ops \in SeqsUpTo(ConstructorOperands, MaxOperands) \ {<<>>} }

InitConstruct ==
    /\ pc = "operands"
    /\ counter = 0
    /\ source \in Constructions
    /\ node = F_empty
    /\ flow = NoFlow
    /\ machine = Idle

\* F.<ctor>(*operands)
Construct ==
    /\ pc = "operands"
    /\ node' = CASE source.ctor = "If" ->
                     F_If(source.operands[1], source.operands[2],
                          source.operands[3])
                 [] source.ctor = "Assign" ->
                     F_Assign("r", source.operands[1])
                 [] source.ctor = "Execute" -> F_Execute(source.operands)
                 [] source.ctor = "And" -> F_And(source.operands)
                 [] source.ctor = "Or" -> F_Or(source.operands)
                 [] OTHER ->
                     create_function_node(source.ctor, source.operands)
    /\ pc' = "built"
    /\ UNCHANGED <<source, counter, flow, machine>>

NextConstruct == Construct
SpecConstruct == InitConstruct /\ [][NextConstruct]_vars

\* the operands of a node that stand in a value-producing position
ValueOperands(n) ==
    CASE n.kind = "If" -> {n.condition, n.then, n.orelse}
      [] n.kind = "Assign" -> {n.value}
      [] n.kind \in {"Function", "Call"} ->
           {n.args[i] : i \in 1..Len(n.args)}
      [] n.kind = "Get" -> {n.offset}
      [] n.kind = "Set" -> {n.offset, n.value}
      [] n.kind = "While" -> {n.condition}
      [] OTHER -> {}

HoldsEmpty(n) ==
    \E m \in SubNodes(n) : \E o \in ValueOperands(m) : ExecuteNode_empty(o)

\* C19: a node built by F.If, F.Assign, F.Execute, F.And, F.Or or a
\* built-in's constructor holds no empty Execute as an operand in a
\* value-producing position: whichever operands are empty, the
\* constructor coerces them to a literal or raises an error.
C19_NoEmptyOperand ==
    pc = "built" => (IsError(node) \/ ~HoldsEmpty(node))

----------------------------------------------------------------------------
(* One pass on its own: <Pass>(flow).optimize(flow) on a hand-built graph, *)
(* then one run of the graph the pass returned.                            *)

Draw(e) == FunctionExpr("Draw", <<e>>)
Bind(name, e) == AssignStatement(name, e, TRUE)
Block(nodes) == ExecuteFlow(nodes, None)

\* `pre; Switch(c) {cases; default}; Draw(x)`: the arms bind x or not
SwitchArms ==
    { Block(<<Bind("x", ValueExpr(Num(1)))>>),
      Block(<<Bind("x", ValueExpr(Num(2)))>>),
      Block(<<Bind("x", RefExpr("c"))>>),
      Block(<<Draw(RefExpr("c"))>>) }

PropagationGraphs ==
    { ExecuteFlow(pre,
          SwitchFlow("r", RefExpr("c"), cases, default,
                     Block(<<Draw(RefExpr("x"))>>))) :
        pre \in {<<>>, <<Bind("x", ValueExpr(Num(1)))>>},
        cases \in {<<Case(ValueExpr(Num(0)), a)>> : a \in SwitchArms}
                 \cup {<<Case(ValueExpr(Num(0)), a),
                         Case(ValueExpr(Num(1)), b)>> :
                           a \in SwitchArms, b \in SwitchArms},
        default \in SwitchArms \cup {None} }

PassInput(cls, graph, regs) ==
    [form |-> "pass", cls |-> cls, graph |-> graph, regs |-> regs,
     hash |-> <<"x", "y">>]

PropagationInputs ==
    { PassInput("ConstantPropagation", g, [r \in {"c"} |-> Num(c)]) :
        g \in PropagationGraphs, c \in 0..MaxValue }

\* a Switch on a literal: each label is a literal or the register x, each
\* arm draws its own number
Labels == {ValueExpr(Num(0)), ValueExpr(Num(1)), RefExpr("x")}

EliminationGraphs ==
    { SwitchFlow("r", ValueExpr(Num(c)),
          [i \in 1..Len(labels) |->
               Case(labels[i], Block(<<Draw(ValueExpr(Num(i)))>>))],
          default, next) :
        c \in 0..1,
        labels \in SeqsUpTo(Labels, MaxChain) \ {<<>>},
        default \in {None, Block(<<Draw(ValueExpr(Num(9)))>>)},
        next \in {None, Block(<<Draw(RefExpr("r"))>>)} }

EliminationInputs ==
    { PassInput("SwitchElimination", g, [r \in {"x"} |-> Num(x)]) :
        g \in EliminationGraphs, x \in 0..MaxValue }

\* `pre; Switch(c) {cases; default}; Draw(x); Draw(y)`: the arms bind x
\* or y, read x, or do both
RenameArms ==
    { Block(<<Bind("x", ValueExpr(Num(3)))>>),
      Block(<<Bind("x", FunctionExpr("Add", <<RefExpr("x"),
                                              ValueExpr(Num(1))>>)),
              Draw(RefExpr("x"))>>),
      Block(<<Bind("y", ValueExpr(Num(4))), Bind("y", RefExpr("x"))>>),
      Block(<<Draw(RefExpr("x"))>>) }

RenameGraphs ==
    { ExecuteFlow(pre,
          SwitchFlow("r", RefExpr("c"), cases, default,
                     Block(<<Draw(RefExpr("x")), Draw(RefExpr("y"))>>))) :
        pre \in {<<>>, <<Bind("x", ValueExpr(Num(1)))>>,
                 <<Bind("y", ValueExpr(Num(1))),
                   Bind("x", RefExpr("y"))>>},
        cases \in {<<Case(ValueExpr(Num(0)), a)>> : a \in RenameArms}
                 \cup {<<Case(ValueExpr(Num(0)), a),
                         Case(ValueExpr(Num(1)), b)>> :
                           a \in RenameArms, b \in RenameArms},
        default \in RenameArms \cup {None} }

RenameInputs ==
    { [PassInput("SingleAssignTransform", g,
                 [r \in {"c", "x", "y"} |->
                      IF r = "c" THEN Num(c) ELSE Num(2)])
          EXCEPT !.hash = h] :
        g \in RenameGraphs, c \in 0..MaxValue, h \in HashOrders }

\* the graphs of Unused Variable Elimination: two nodes, assignments of
\* pure and of side-effecting values to x and y and reads of x, in an
\* Execute block, in a Switch arm or in a Loop body
EffectValues ==
    { ValueExpr(Num(1)), Draw(ValueExpr(Num(1))),
      FunctionExpr("Random", <<ValueExpr(Num(0)), ValueExpr(Num(1))>>),
      FunctionExpr("DebugLog", <<RefExpr("x")>>) }
EffectNodes ==
    {Bind(t, e) : t \in {"x", "y"}, e \in EffectValues}
        \cup {Draw(RefExpr("x")), RefExpr("y")}
EffectGraphs ==
    UNION { { Block(<<a, b>>),
              SwitchFlow("r", RefExpr("c"),
                         <<Case(ValueExpr(Num(0)), Block(<<a>>))>>,
                         Block(<<b>>), None),
              ExecuteFlow(<<a>>, LoopFlow(RefExpr("c"), Block(<<b>>), None)) } :
            a \in EffectNodes, b \in EffectNodes }
EffectInputs ==
    { PassInput("UnusedVariableElimination", g,
                [r \in {"c"} |-> Num(c)]) :
        g \in EffectGraphs, c \in 0..1 }

\* the graphs of Variable Inline: x is assigned once, a node follows, and
\* x is read once, in the same Execute block, in a Switch arm or in a
\* Loop body
InlineValues ==
    { Draw(ValueExpr(Num(1))), GetExpr(1, 2, ValueExpr(Num(0))),
      FunctionExpr("Add", <<RefExpr("c"), ValueExpr(Num(1))>>) }
InlineBetween ==
    { Draw(ValueExpr(Num(2))),
      SetStatement(1, 2, ValueExpr(Num(0)), ValueExpr(Num(2))),
      ValueExpr(Num(2)) }
InlineGraphs ==
    UNION { { Block(<<Bind("x", v), b, Draw(RefExpr("x"))>>),
              ExecuteFlow(<<Bind("x", v), b>>,
                  SwitchFlow("r", RefExpr("c"),
                      <<Case(ValueExpr(Num(0)),
                             Block(<<Draw(RefExpr("x"))>>))>>,
                      Block(<<ValueExpr(Num(0))>>), None)),
              ExecuteFlow(<<Bind("x", v), b>>,
                  LoopFlow(RefExpr("k"),
                      Block(<<Draw(RefExpr("x")),
                              Bind("k", FunctionExpr("Subtract",
                                  <<RefExpr("k"), ValueExpr(Num(1))>>))>>),
                      None)) } :
            v \in InlineValues, b \in InlineBetween }
InlineInputs ==
    { PassInput("VariableInline", g,
                [r \in {"c", "k"} |-> IF r = "c" THEN Num(c) ELSE Num(k)]) :
        g \in InlineGraphs, c \in 0..1, k \in 0..MaxLoop }

PassInputs ==
    PropagationInputs \cup EliminationInputs \cup RenameInputs
        \cup EffectInputs \cup InlineInputs

InitPass ==
    /\ pc = "pass"
    /\ counter = 0
    /\ source \in PassInputs
    /\ node = F_empty
    /\ flow = source.graph
    /\ machine = Idle

\* <cls>(flow).optimize(flow); an exception is left in place of the graph
ApplyPass ==
    /\ pc = "pass"
    /\ LET r == Pass(source.cls, flow, counter, source.hash)
       IN  /\ flow' = r.flow
           /\ counter' = r.counter
    /\ pc' = "passed"
    /\ UNCHANGED <<source, node, machine>>

\* one run of the graph the pass returned, on the source's registers
RunPassed ==
    /\ pc = "passed"
    /\ ~IsError(flow)
    /\ machine' = RunFlow(flow, Machine(source.regs, <<>>))
    /\ pc' = "pass-ran"
    /\ UNCHANGED <<source, counter, node, flow>>

\* Unused Variable Elimination on the graph Variable Inline returned
SweepUnread ==
    /\ pc = "passed"
    /\ source.cls = "VariableInline"
    /\ ~IsError(flow)
    /\ LET r == Pass("UnusedVariableElimination", flow, counter, source.hash)
       IN  /\ flow' = r.flow
           /\ counter' = r.counter
    /\ pc' = "swept"
    /\ UNCHANGED <<source, node, machine>>

\* one run of the graph the two passes returned, on the source's registers
RunSwept ==
    /\ pc = "swept"
    /\ ~IsError(flow)
    /\ machine' = RunFlow(flow, Machine(source.regs, <<>>))
    /\ pc' = "sweep-ran"
    /\ UNCHANGED <<source, counter, node, flow>>

NextPass == ApplyPass \/ RunPassed \/ SweepUnread \/ RunSwept
SpecPass == InitPass /\ [][NextPass]_vars

\* the run of the graph the pass was given
InputRun == RunFlow(source.graph, Machine(source.regs, <<>>))

\* the arguments of the calls of Draw in a run, in order
Drawn(m) ==
    LET calls == SelectSeq(m.trace,
                     LAMBDA e : e.ev = "call" /\ e.name = "Draw")
    IN  [i \in 1..Len(calls) |-> calls[i].args]

\* the operand of the Draw that follows the Switch
AfterSwitch(f) == f.next.next.nodes[1].args[1]

\* C22: Constant Propagation replaces the register read that follows a
\* Switch by a literal c only if the register holds c there on every
\* path through the Switch: each case body, the default and, without a
\* default, the path on which no case matches.
C22_ConstantOnEveryPath ==
    (/\ pc = "passed"
     /\ source.cls = "ConstantPropagation"
     /\ ~IsError(flow)
     /\ IsValue(AfterSwitch(flow)))
        => Drawn(InputRun)[Len(Drawn(InputRun))] = <<AfterSwitch(flow).value>>

\* the value of a case label on the source's registers
LabelValue(label) == RunExpr(label, Machine(source.regs, <<>>)).val

\* the arm the Switch n selects at run time: the first case whose label
\* equals the condition, else the default
Selected(n) ==
    IF \E i \in 1..Len(n.cases) :
           LabelValue(n.cases[i].case) = n.condition.value
    THEN n.cases[CHOOSE i \in 1..Len(n.cases) :
                    /\ LabelValue(n.cases[i].case) = n.condition.value
                    /\ \A j \in 1..(i - 1) :
                           LabelValue(n.cases[j].case)
                               # n.condition.value].body
    ELSE n.default

\* C23: Switch Elimination replaces a Switch on a literal by an arm only
\* when that arm is the one the Switch selects at run time, with the
\* arm's value written into the result register; a Switch with a
\* non-literal case label is left in place.
C23_EliminatesSelectedArm ==
    (pc = "passed" /\ source.cls = "SwitchElimination")
        => /\ ~IsError(flow)
           /\ (\E i \in 1..Len(source.graph.cases) :
                   ~IsValue(source.graph.cases[i].case))
                  => flow = source.graph
           /\ flow # source.graph
                  => /\ Selected(source.graph) # None
                     /\ flow = Replace(
                            Flow_set_result(Selected(source.graph),
                                            source.graph.result),
                            source.graph.next)

\* C24: on a graph of Execute and Switch blocks Single-Assign Transform
\* preserves behaviour: on every path each register read yields, after
\* the renaming, the value the corresponding read of the input graph
\* yields, a name reassigned in an arm being read after the Switch
\* through a selector Switch on the same condition value.
C24_RenamingPreservesReads ==
    source.cls = "SingleAssignTransform"
        => /\ pc = "passed" => ~IsError(flow)
           /\ pc = "pass-ran" => Drawn(machine) = Drawn(InputRun)

RECURSIVE EffectCalls(_)
RECURSIVE EffectCallsIn(_, _)
\* the side-effecting calls of a graph, in the order they are written
EffectCalls(n) ==
    CASE n = None -> <<>>
      [] n.kind = "FunctionExpr" ->
           EffectCallsIn(n.args, 1)
               \o (IF n.name \in Impure THEN <<n>> ELSE <<>>)
      [] n.kind = "GetExpr" -> EffectCalls(n.offset)
      [] n.kind = "AssignStatement" -> EffectCalls(n.value)
      [] n.kind = "SetStatement" ->
           EffectCalls(n.offset) \o EffectCalls(n.value)
      [] n.kind = "ExecuteFlow" ->
           EffectCallsIn(n.nodes, 1) \o EffectCalls(n.next)
      [] n.kind = "SwitchFlow" ->
           EffectCalls(n.condition)
               \o EffectCallsIn([i \in 1..Len(n.cases) |-> n.cases[i].body], 1)
               \o EffectCalls(n.default) \o EffectCalls(n.next)
      [] n.kind = "LoopFlow" ->
           EffectCalls(n.condition) \o EffectCalls(n.body)
               \o EffectCalls(n.next)
      [] OTHER -> <<>>
EffectCallsIn(ns, i) ==
    IF i > Len(ns) THEN <<>>
    ELSE EffectCalls(ns[i]) \o EffectCallsIn(ns, i + 1)

\* C27: Unused Variable Elimination never removes the evaluation of a
\* side-effecting expression: the Random, Draw, Play, Spawn,
\* particle-effect and Debug calls of the graph are the same before and
\* after the pass, also when such a call is the value of an assignment
\* whose target is never read.
C27_KeepsSideEffects ==
    (source.cls = "UnusedVariableElimination" /\ pc = "passed")
        => EffectCalls(flow) = EffectCalls(source.graph)

\* the side-effecting built-in calls and the memory reads of a run
Effects(m) ==
    SelectSeq(m.trace,
              LAMBDA e : \/ e.ev = "call" /\ e.name \in Impure
                         \/ e.ev = "get")

\* C28: Variable Inline, followed by the removal of the assignment it
\* made unread, keeps every side-effecting built-in call and memory read
\* executing the same number of times and in the same relative order on
\* every execution path as in the input graph, whether the register's
\* single read is in the same Execute block, in a Switch arm or in a Loop
\* body.
C28_InlineKeepsEffects ==
    pc = "sweep-ran" => Effects(machine) = Effects(InputRun)

----------------------------------------------------------------------------
(* set_result on its own: a chain of blocks linked by their continuations, *)
(* one of each Flow variant at each position, then set_result("res") and   *)
(* one run of the flow it returned.                                        *)

MaxBlocks == 3      \* blocks of a continuation chain

ResultName == "res"

\* the block of a variant, continued by next
ChainBlock(variant, next) ==
    CASE variant = "Execute" ->
           ExecuteFlow(<<Draw(RefExpr("c")), RefExpr("c")>>, next)
      [] variant = "Switch" ->
           SwitchFlow("s", RefExpr("c"),
                      <<Case(ValueExpr(Num(0)), Block(<<ValueExpr(Num(3))>>))>>,
                      Block(<<ValueExpr(Num(4))>>), next)
      [] variant = "Loop" ->
           LoopFlow(RefExpr("k"),
                    Block(<<Draw(RefExpr("k")),
                            Bind("k", FunctionExpr("Subtract",
                                <<RefExpr("k"), ValueExpr(Num(1))>>))>>),
                    next)

RECURSIVE Chain(_, _)
Chain(variants, i) ==
    IF i > Len(variants) THEN None
    ELSE ChainBlock(variants[i], Chain(variants, i + 1))

Variants == {"Execute", "Switch", "Loop"}
ChainShapes ==
    UNION {[1..n -> Variants] : n \in 1..MaxBlocks}

ChainInputs ==
    { [form |-> "chain", variants |-> v, graph |-> Chain(v, 1),
       regs |-> [r \in {"c", "k"} |-> IF r = "c" THEN Num(c) ELSE Num(k)]] :
        v \in ChainShapes, c \in 0..1, k \in 0..MaxLoop }

InitChain ==
    /\ pc = "chain"
    /\ counter = 0
    /\ source \in ChainInputs
    /\ node = F_empty
    /\ flow = source.graph
    /\ machine = Idle

\* flow.set_result("res")
SetResult ==
    /\ pc = "chain"
    /\ flow' = Flow_set_result(flow, ResultName)
    /\ pc' = "result-set"
    /\ UNCHANGED <<counter, source, node, machine>>

\* one run of the flow set_result returned, on the source's registers
RunResult ==
    /\ pc = "result-set"
    /\ ~IsError(flow)
    /\ machine' = RunFlow(flow, Machine(source.regs, <<>>))
    /\ pc' = "result-ran"
    /\ UNCHANGED <<counter, source, node, flow>>

NextChain == SetResult \/ RunResult
SpecChain == InitChain /\ [][NextChain]_vars

\* the run of the chain set_result was given
ChainRun == RunFlow(source.graph, Machine(source.regs, <<>>))

\* the variant of the block the chain ends in
Terminus == source.variants[Len(source.variants)]

\* a Loop of the chain has a continuation
LoopContinued ==
    \E i \in 1..(Len(source.variants) - 1) : source.variants[i] = "Loop"

\* C25: set_result(name) returns a flow that differs from the chain only
\* at its terminus, where the chain's resulting value is written into the
\* register name, also when a Loop of the chain has a continuation: the
\* run of the returned flow is the run of the chain followed by that one
\* write.
C25_WritesAtTerminus ==
    (pc = "result-ran" /\ Terminus # "Loop")
        => machine.trace
             = Append(ChainRun.trace,
                      Event("assign", ResultName, <<ChainRun.val>>))

----------------------------------------------------------------------------
(* Inlining a call whose arguments are calls of the same function: the     *)
(* entry function main calls f(a, b) of two parameters, each argument a    *)
(* literal or a call of f on literals; link, then one run of the tree.     *)

\* the body of f: Draw(a, b), then a op b
NestBody(op) ==
    ExecuteNode(<<FunctionNode("Draw", <<RefNode("f$a"), RefNode("f$b")>>),
                  FunctionNode(op, <<RefNode("f$a"), RefNode("f$b")>>)>>)

NestLiterals == {ValueNode(Num(v)) : v \in 1..(MaxValue + 1)}
NestArguments ==
    NestLiterals \cup {CallNode("f", <<u, v>>, <<>>) : u, v \in NestLiterals}

NestPrograms ==
    { [form |-> "nest", op |-> op,
       output |-> CompileOutput("main",
           [x \in {"main", "f"} |->
               IF x = "main"
               THEN CompiledFunction("main", ParameterList(<<>>, ""),
                        CallNode("f", <<a, b>>, <<>>))
               ELSE CompiledFunction("f",
                        ParameterList(<<Parameter("a", NoDefault),
                                        Parameter("b", NoDefault)>>, ""),
                        NestBody(op))])] :
      op \in {"Subtract", "Add"}, a, b \in NestArguments }

InitNest ==
    /\ pc = "nest"
    /\ counter = 0
    /\ source \in NestPrograms
    /\ node = F_empty
    /\ flow = NoFlow
    /\ machine = Idle

\* output.link()
LinkNest ==
    /\ pc = "nest"
    /\ node' = CompileOutput_link(source.output)
    /\ pc' = "inlined"
    /\ UNCHANGED <<counter, source, flow, machine>>

\* one run of the linked tree
RunNest ==
    /\ pc = "inlined"
    /\ ~IsError(node)
    /\ machine' = Eval(node, Idle)
    /\ pc' = "inline-ran"
    /\ UNCHANGED <<counter, source, node, flow>>

NextNest == LinkNest \/ RunNest
SpecNest == InitNest /\ [][NextNest]_vars

\* the call the entry function makes
OuterCall == source.output.functions["main"].node

\* the value of an argument: a literal, or f's result on its arguments
ArgumentValue(a) ==
    IF a.kind = "Value" THEN a.num
    ELSE Builtin(source.op, <<a.args[1].num, a.args[2].num>>)

\* what the body of the outer call reads as its parameters a and b: the
\* operands of the last Draw of the run
OuterReads == Drawn(machine)[Len(Drawn(machine))]

\* C26: inlining binds each parameter register to its own argument's
\* value for the whole evaluation of the callee body, also when another
\* argument of the call is a call of the same function: the body of the
\* outer call reads each parameter as the value of its argument.
C26_ParametersKeepArguments ==
    pc = "inline-ran"
        => OuterReads = <<ArgumentValue(OuterCall.args[1]),
                          ArgumentValue(OuterCall.args[2])>>

----------------------------------------------------------------------------
(* The immutable mark: Assignment Staticization on a graph, then one of    *)
(* the passes on the graph it returned.                                    *)

\* the graphs: x bound once to a pure or a side-effecting value and read,
\* in one block, before a Switch or before a Loop
MarkValues ==
    { ValueExpr(Num(1)),
      FunctionExpr("Add", <<RefExpr("c"), ValueExpr(Num(1))>>),
      Draw(ValueExpr(Num(1))) }
MarkGraphs ==
    UNION { { Block(<<Bind("x", v), Draw(RefExpr("x")), Draw(RefExpr("x"))>>),
              ExecuteFlow(<<Bind("x", v), Draw(RefExpr("x"))>>,
                  SwitchFlow("r", RefExpr("c"),
                      <<Case(ValueExpr(Num(0)),
                             Block(<<Draw(RefExpr("x"))>>))>>,
                      Block(<<Bind("y", RefExpr("x")),
                              Draw(RefExpr("y")), RefExpr("y")>>), None)),
              ExecuteFlow(<<Bind("x", v), Draw(RefExpr("x"))>>,
                  LoopFlow(RefExpr("c"),
                      Block(<<Draw(RefExpr("x")),
                              Bind("c", ValueExpr(Num(0)))>>),
                      None)) } :
            v \in MarkValues }

PassNames ==
    UNION {{Classes[mod][i] : i \in 1..Len(Classes[mod])} :
           mod \in DOMAIN Classes}

MarkInputs ==
    { [form |-> "static", cls |-> cls, graph |-> g, hash |-> h] :
        cls \in PassNames, g \in MarkGraphs, h \in HashOrders }

InitMark ==
    /\ pc = "static"
    /\ counter = 0
    /\ source \in MarkInputs
    /\ node = F_empty
    /\ flow = source.graph
    /\ machine = Idle

\* AssignmentStaticization(flow).optimize(flow)
Staticize ==
    /\ pc = "static"
    /\ LET r == Pass("AssignmentStaticization", flow, counter, source.hash)
       IN  /\ flow' = r.flow
           /\ counter' = r.counter
    /\ pc' = "marked"
    /\ UNCHANGED <<source, node, machine>>

\* a later pass of the round, or a pass of a later round
LaterPass ==
    /\ pc = "marked"
    /\ LET r == Pass(source.cls, flow, counter, source.hash)
       IN  /\ flow' = r.flow
           /\ counter' = r.counter
    /\ pc' = "later"
    /\ UNCHANGED <<source, node, machine>>

NextMark == Staticize \/ LaterPass
SpecMark == InitMark /\ [][NextMark]_vars

RECURSIVE Bindings(_)
\* the assignments of a graph: name and mark
Bindings(n) ==
    CASE n = None -> {}
      [] n.kind = "AssignStatement" ->
           {[name |-> n.name, mutable |-> n.mutable]}
      [] n.kind = "ExecuteFlow" ->
           UNION {Bindings(n.nodes[i]) : i \in 1..Len(n.nodes)}
               \cup Bindings(n.next)
      [] n.kind = "SwitchFlow" ->
           UNION {Bindings(n.cases[i].body) : i \in 1..Len(n.cases)}
               \cup Bindings(n.default) \cup Bindings(n.next)
      [] n.kind = "LoopFlow" -> Bindings(n.body) \cup Bindings(n.next)
      [] OTHER -> {}

\* the names Assignment Staticization marked immutable in the source graph
Marked ==
    {b.name : b \in {c \in Bindings(AssignmentStaticization(source.graph)) :
                         ~c.mutable}}

\* C29: once Assignment Staticization has marked an assignment immutable,
\* every later pass leaves the mark in place: no pass turns an immutable
\* binding back into a mutable one.
C29_MarkStays ==
    (pc = "later" /\ ~IsError(flow))
        => \A b \in Bindings(flow) : b.name \in Marked => ~b.mutable

----------------------------------------------------------------------------
(* A While through lowering and one pass: transform(node) on a tree that   *)
(* holds one While, then one pass on the flow.                             *)

WhileConditions ==
    { RefNode("i"), ValueNode(Num(1)),
      FunctionNode("Less", <<RefNode("i"), ValueNode(Num(2))>>) }
WhileBodies ==
    { AssignNode("i", ValueNode(Num(0))),
      AssignNode("i", FunctionNode("Add", <<RefNode("i"), ValueNode(Num(1))>>)),
      FunctionNode("Draw", <<RefNode("i")>>) }
WhileTrees ==
    UNION { { WhileNode(c, b),
              ExecuteNode(<<AssignNode("i", ValueNode(Num(1))),
                            WhileNode(c, b)>>) } :
            c \in WhileConditions, b \in WhileBodies }

WhileInputs ==
    { [form |-> "while", cls |-> cls, tree |-> t, hash |-> h] :
        cls \in PassNames, t \in WhileTrees, h \in HashOrders }

InitLoop ==
    /\ pc = "while"
    /\ counter = 0
    /\ source \in WhileInputs
    /\ node = source.tree
    /\ flow = NoFlow
    /\ machine = Idle

\* transform(node)
LowerWhile ==
    /\ pc = "while"
    /\ LET r == transform(node, counter)
       IN  /\ flow' = IF IsError(r.expr) THEN r.expr ELSE r.flow
           /\ counter' = r.counter
    /\ pc' = "loop"
    /\ UNCHANGED <<source, node, machine>>

\* <cls>(flow).optimize(flow) on the lowered flow
LoopPass ==
    /\ pc = "loop"
    /\ ~IsError(flow)
    /\ LET r == Pass(source.cls, flow, counter, source.hash)
       IN  /\ flow' = r.flow
           /\ counter' = r.counter
    /\ pc' = "loop-passed"
    /\ UNCHANGED <<source, node, machine>>

NextLoop == LowerWhile \/ LoopPass
SpecLoop == InitLoop /\ [][NextLoop]_vars

RECURSIVE Loops(_)
\* the Loop blocks of a graph
Loops(n) ==
    CASE n = None -> {}
      [] n.kind = "ExecuteFlow" -> Loops(n.next)
      [] n.kind = "SwitchFlow" ->
           UNION {Loops(n.cases[i].body) : i \in 1..Len(n.cases)}
               \cup Loops(n.default) \cup Loops(n.next)
      [] n.kind = "LoopFlow" -> {n} \cup Loops(n.body) \cup Loops(n.next)
      [] OTHER -> {}

\* the Loop's condition reads a register that its body binds
ReadsRebound(l) ==
    /\ l.condition.kind = "RefExpr"
    /\ l.condition.name \in {b.name : b \in Bindings(l.body)}

\* C30: for a Loop produced by lowering a While, every optimizer pass
\* keeps the Loop's condition reading the register that the body re-binds
\* on each iteration.
C30_ConditionStaysRebound ==
    /\ pc = "loop" => \A l \in Loops(flow) : ReadsRebound(l)
    /\ (pc = "loop-passed" /\ ~IsError(flow))
           => /\ Loops(flow) # {}
              /\ \A l \in Loops(flow) : ReadsRebound(l)

----------------------------------------------------------------------------
(* The pass registry on its own: class statements executed one after the   *)
(* other, each naming as dependencies classes that already exist.  The     *)
(* n-th class registered is the number n.                                  *)

MaxPasses == 5      \* class statements executed

InitRegistry ==
    /\ pc = "passes"
    /\ counter = 0
    /\ source = [form |-> "passes", dependencies |-> <<>>, order |-> <<>>]
    /\ node = F_empty
    /\ flow = NoFlow
    /\ machine = Idle

\* class <n>(Optimizer, dependencies=[...]): the class attribute is set,
\* then the class is inserted into Optimizer.topological_order
RegisterPass ==
    /\ pc = "passes"
    /\ Len(source.order) < MaxPasses
    /\ \E named \in SUBSET (1..Len(source.dependencies)) :
          LET cls == Len(source.dependencies) + 1
              dependencies == Append(source.dependencies, named)
          IN  source' = [source EXCEPT
                           !.dependencies = dependencies,
                           !.order = Optimizer_init_subclass(dependencies,
                                                             @, cls)]
    /\ UNCHANGED <<pc, counter, node, flow, machine>>

NextRegistry == RegisterPass
SpecRegistry == InitRegistry /\ [][NextRegistry]_vars

Positions(order, cls) == {i \in 1..Len(order) : order[i] = cls}

\* C21: after any sequence of registrations, every registered pass is in
\* Optimizer.topological_order exactly once, after every pass it depends
\* on directly or transitively.
C21_OrderIsTopological ==
    pc = "passes" =>
        \A a \in 1..Len(source.dependencies) :
            /\ Cardinality(Positions(source.order, a)) = 1
            /\ \A b \in 1..Len(source.dependencies) :
                   (a # b /\ depend_on(source.dependencies, a, b))
                       => \A i \in Positions(source.order, a) :
                            \A j \in Positions(source.order, b) : j < i

\* a pass with two dependencies went in before a pass registered earlier
C21_Witness ==
    /\ pc = "passes"
    /\ \E i \in 1..(Len(source.order) - 1) :
          /\ source.order[i] > source.order[i + 1]
          /\ Cardinality(source.dependencies[source.order[i]]) >= 2

----------------------------------------------------------------------------
(* The whole development: each stage from the inputs it is given.           *)

Init ==
    \/ InitCompile
    \/ InitLink
    \/ InitCall
    \/ InitOverload
    \/ InitSession
    \/ InitLower
    \/ InitFold
    \/ InitOptimize
    \/ InitConstruct
    \/ InitOpenFold
    \/ InitRegistry
    \/ InitPass
    \/ InitChain
    \/ InitNest
    \/ InitMark
    \/ InitLoop

Next ==
    \/ NextCompile
    \/ NextLink
    \/ NextCall
    \/ NextOverload
    \/ NextSession
    \/ NextLower
    \/ NextFold
    \/ NextOptimize
    \/ NextConstruct
    \/ NextOpenFold
    \/ NextRegistry
    \/ NextPass
    \/ NextChain
    \/ NextNest
    \/ NextMark
    \/ NextLoop

Spec == Init /\ [][Next]_vars
====
